---- MODULE Spec2Model ----
(***************************************************************************)
(* Model of the Automacao-ConsultaSimples scripts: the yearly batch loops  *)
(* (consulta.py, codigocomentado.py, consulta_simples.py, BrasilAPI), the  *)
(* Streamlit pipeline of Interface/app.py, the Tkinter + HTTP wrapper of   *)
(* Interface/apps.py, and the pure helpers they share (date parsing,       *)
(* period extraction, period-coverage classification, sheet replacement).  *)
(* The source's strings are written without their accents ("Nao optante",  *)
(* "Periodos_detectados"): TLC does not keep characters outside ASCII when *)
(* it stores a state.                                                      *)
(***************************************************************************)
EXTENDS Integers, Sequences, FiniteSets, TLC

VARIABLES
    script,     \* which script's batch loop is running
    cnpjs,      \* the list read from INPUT_FILE (already cleaned)
    today,      \* date.today() during the run
    pc,         \* "loop" | "done" | "crashed"
    idx,        \* number of CNPJs whose loop body has completed
    rows,       \* the list `rows` / `resultados`
    resps,      \* history: the response received by each request, in order
    log,        \* history: requests, extractions, classifications and sleeps
    outFile,    \* the spreadsheet written by DataFrame(...).to_excel
    startYear,  \* process_dataframe: its parameter start_year
    fn,         \* pure-function harness: name of the last function called
    fnArgs,     \* pure-function harness: the argument objects of the run
    fnOut,      \* pure-function harness: result of the last call
    fnPrev,     \* pure-function harness: the call before the last one
    clock,      \* pure-function harness: wall clock (date.today())
    wb,         \* add_sheet_into_excel_bytes: the workbook's sheets
    wbStep,     \* add_sheet_into_excel_bytes: position in the function
    wbTmp,      \* add_sheet_into_excel_bytes: created_tmp
    wbOrig,     \* add_sheet_into_excel_bytes: the workbook as loaded
    btn,        \* apps.py: state of btn_local
    dialog,     \* apps.py: an askopenfilename dialog is open
    workers,    \* apps.py: position of each desktop worker thread
    httpd,      \* apps.py: the global httpd ("none" | "serving")
    handler,    \* apps.py: position of the server thread's request handler
    pending,    \* apps.py: root.after callbacks queued for the Tk main loop
    started     \* apps.py: number of main() invocations started so far

batchVars == <<script, cnpjs, today, pc, idx, rows, resps, log, outFile, startYear>>
fnVars    == <<fn, fnArgs, fnOut, fnPrev, clock>>
sheetVars == <<wb, wbStep, wbTmp, wbOrig>>
uiVars    == <<btn, dialog, workers, httpd, handler, pending, started>>
vars      == <<batchVars, fnVars, sheetVars, uiVars>>

(***************************************************************************)
(* Bounds of the model.                                                    *)
(***************************************************************************)
MaxCnpjs   == 2   \* longest input list
MaxPeriods == 2   \* longest period list handed to a classifier
MaxItems   == 2   \* longest list of items under one JSON key
MaxSheets  == 3   \* most sheets in an uploaded workbook
MaxRuns    == 3   \* most main() invocations started in one session of apps.py
MaxPieces  == 2   \* most pieces a raw CNPJ text is put together from

(***************************************************************************)
(* Dates.  A date is the integer yyyymmdd: Python's date ordering is the   *)
(* lexicographic order on (year, month, day), which this encoding keeps.   *)
(* NoDate stands for Python's None where a date is expected.               *)
(***************************************************************************)
NoDate == 0

Date(y, m, d) == y * 10000 + m * 100 + d
YearOf(dt)  == dt \div 10000
MonthOf(dt) == (dt \div 100) % 100
DayOf(dt)   == dt % 100

IsLeap(y) == (y % 4 = 0 /\ y % 100 # 0) \/ y % 400 = 0

DaysInMonth(y, m) ==
    IF m = 2 THEN (IF IsLeap(y) THEN 29 ELSE 28)
    ELSE IF m \in {4, 6, 9, 11} THEN 30 ELSE 31

IsValidDate(y, m, d) == m \in 1..12 /\ d >= 1 /\ d <= DaysInMonth(y, m)

RECURSIVE DaysBeforeMonth(_, _)
DaysBeforeMonth(y, m) ==
    IF m = 1 THEN 0 ELSE DaysBeforeMonth(y, m - 1) + DaysInMonth(y, m - 1)

\* (dt - date(year(dt), 1, 1)).days + 1
DayOfYear(dt) == DaysBeforeMonth(YearOf(dt), MonthOf(dt)) + DayOf(dt)

Digit == <<"0", "1", "2", "3", "4", "5", "6", "7", "8", "9">>

RECURSIVE ToStr(_)
ToStr(n) == IF n < 10 THEN Digit[n + 1] ELSE ToStr(n \div 10) \o Digit[(n % 10) + 1]

Two(n) == IF n < 10 THEN "0" \o ToStr(n) ELSE ToStr(n)

\* date.isoformat()
IsoFormat(dt) == ToStr(YearOf(dt)) \o "-" \o Two(MonthOf(dt)) \o "-" \o Two(DayOf(dt))

(***************************************************************************)
(* JSON values as Python sees them after r.json().  A node carries its tag *)
(* t, the key k under which it sits in its parent dict ("" elsewhere), a   *)
(* string s, a number n and its children (list items, or dict values in    *)
(* insertion order).  JSON null is Python's None.                          *)
(***************************************************************************)
JNull(k)       == [t |-> "null", k |-> k, s |-> "", n |-> 0, kids |-> <<>>]
JStr(k, s)     == [t |-> "str",  k |-> k, s |-> s,  n |-> 0, kids |-> <<>>]
JNum(k, n)     == [t |-> "num",  k |-> k, s |-> "", n |-> n, kids |-> <<>>]
JTrue(k)       == [t |-> "true", k |-> k, s |-> "", n |-> 1, kids |-> <<>>]
JFalse(k)      == [t |-> "false", k |-> k, s |-> "", n |-> 0, kids |-> <<>>]
JList(k, kids) == [t |-> "list", k |-> k, s |-> "", n |-> 0, kids |-> kids]
JDict(k, kids) == [t |-> "dict", k |-> k, s |-> "", n |-> 0, kids |-> kids]

None == JNull("")

IsNone(x) == x.t = "null"
IsDict(x) == x.t = "dict"
IsList(x) == x.t = "list"

\* Python truthiness: bool(x)
Truthy(x) ==
    CASE x.t = "null"  -> FALSE
      [] x.t = "false" -> FALSE
      [] x.t = "true"  -> TRUE
      [] x.t = "str"   -> x.s # ""
      [] x.t = "num"   -> x.n # 0
      [] OTHER         -> Len(x.kids) > 0

\* key in d
Has(d, key) == IsDict(d) /\ \E i \in 1..Len(d.kids) : d.kids[i].k = key

\* d.get(key): the value, or None
Get(d, key) ==
    IF Has(d, key)
    THEN d.kids[CHOOSE i \in 1..Len(d.kids) : d.kids[i].k = key]
    ELSE None

\* a or b
Or(a, b) == IF Truthy(a) THEN a ELSE b

(***************************************************************************)
(* Date parsing.  TLC strings are atomic, so the texts the model feeds to  *)
(* the parsers are listed with the shape each has; strptime and dateutil   *)
(* are modelled by what they do with a text of that shape.                 *)
(***************************************************************************)
DateTexts == {
    [text |-> "01/07/2007", shape |-> "d/m/Y", y |-> 2007, m |-> 7,  d |-> 1],
    [text |-> "01/01/2018", shape |-> "d/m/Y", y |-> 2018, m |-> 1,  d |-> 1],
    [text |-> "31/12/2021", shape |-> "d/m/Y", y |-> 2021, m |-> 12, d |-> 31],
    [text |-> "31/02/2020", shape |-> "d/m/Y", y |-> 2020, m |-> 2,  d |-> 31],
    [text |-> "2019-07-01", shape |-> "Y-m-d", y |-> 2019, m |-> 7,  d |-> 1],
    [text |-> "2020-01-15", shape |-> "Y-m-d", y |-> 2020, m |-> 1,  d |-> 15],
    [text |-> "30-06-2023", shape |-> "d-m-Y", y |-> 2023, m |-> 6,  d |-> 30],
    [text |-> "2020/01/01", shape |-> "Y/m/d", y |-> 2020, m |-> 1,  d |-> 1],
    [text |-> "5 Jan 2018", shape |-> "d b Y", y |-> 2018, m |-> 1,  d |-> 5] }

IsDateText(s) == \E e \in DateTexts : e.text = s
DateText(s)   == CHOOSE e \in DateTexts : e.text = s

\* datetime.strptime(s, fmt).date(); NoDate when it raises
strptime(s, fmt) ==
    IF IsDateText(s) /\ DateText(s).shape = fmt
          /\ IsValidDate(DateText(s).y, DateText(s).m, DateText(s).d)
    THEN Date(DateText(s).y, DateText(s).m, DateText(s).d)
    ELSE NoDate

\* dateutil.parser.parse(s, dayfirst=True).date(); NoDate when it raises.
\* With the year in front and dayfirst=True, dateutil reads year-day-month
\* whenever the last number can be a month.
dparser_parse(s) ==
    IF ~IsDateText(s) THEN NoDate
    ELSE LET e == DateText(s) IN
         IF e.shape \in {"Y-m-d", "Y/m/d"} /\ e.d <= 12
         THEN (IF IsValidDate(e.y, e.d, e.m) THEN Date(e.y, e.d, e.m) ELSE NoDate)
         ELSE (IF IsValidDate(e.y, e.m, e.d) THEN Date(e.y, e.m, e.d) ELSE NoDate)

\* str(x) of a value that reaches a date parser
PyStr(x) ==
    CASE x.t = "str"  -> x.s
      [] x.t = "num"  -> ToStr(x.n)
      [] x.t = "true" -> "True"
      [] OTHER        -> "<repr>"

formatos == <<"d/m/Y", "Y-m-d", "d-m-Y", "Y/m/d">>

RECURSIVE TryFormats(_, _, _)
TryFormats(s, fmts, i) ==
    IF i > Len(fmts) THEN dparser_parse(s)
    ELSE IF strptime(s, fmts[i]) # NoDate THEN strptime(s, fmts[i])
    ELSE TryFormats(s, fmts, i + 1)

\* parse_date_any of Interface/app.py (the same body in consulta.py)
parse_date_any(x) == IF ~Truthy(x) THEN NoDate ELSE TryFormats(PyStr(x), formatos, 1)

\* parsear_data of codigocomentado.py
parsear_data(x) == IF ~Truthy(x) THEN NoDate ELSE TryFormats(PyStr(x), formatos, 1)

\* parse_date_any of consulta_simples.py: only dd/mm/yyyy, then dateutil
parse_date_any_cs(x) ==
    IF ~Truthy(x) THEN NoDate ELSE TryFormats(PyStr(x), <<"d/m/Y">>, 1)

(***************************************************************************)
(* Period extraction.                                                      *)
(***************************************************************************)
IsBlank(v) == v.t = "null" \/ (v.t = "str" /\ v.s = "")

\* _get_value of app.py: the first key present whose value is neither None nor ""
RECURSIVE get_value(_, _, _)
get_value(item, keys, i) ==
    IF i > Len(keys) THEN None
    ELSE IF IsDict(item) /\ Has(item, keys[i]) /\ ~IsBlank(Get(item, keys[i]))
         THEN Get(item, keys[i])
         ELSE get_value(item, keys, i + 1)

\* _pegar_valor of codigocomentado.py
RECURSIVE pegar_valor(_, _, _)
pegar_valor(item, chaves, i) ==
    IF i > Len(chaves) THEN None
    ELSE IF IsDict(item) /\ Has(item, chaves[i]) /\ ~IsBlank(Get(item, chaves[i]))
         THEN Get(item, chaves[i])
         ELSE pegar_valor(item, chaves, i + 1)

StartKeys   == <<"inicio_data", "data_inicio", "inicio", "data">>
EndKeys     == <<"fim_data", "data_fim", "fim", "data_fim">>
DetalheKeys == <<"detalhamento", "detalhe", "motivo">>

candidate_list_keys ==
    << "simples_nacional_periodos_anteriores", "simples_nacional_periodos",
       "periodos_simples", "simples_periodos", "simples_nacional",
       "periodos", "permanencia", "periodo" >>

Period(si, ei, detalhe) == [start |-> si, end |-> ei, detalhe |-> detalhe]

\* detalhe = _get_value(item, [...]) or ""
DetalheOf(v) == IF Truthy(v) THEN PyStr(v) ELSE ""

\* mutant of AppItem: an item without a readable end date is discarded
AppItemNeedsEnd(item) ==
    IF ~IsDict(item) THEN <<>>
    ELSE LET si == parse_date_any(get_value(item, StartKeys, 1))
             ei == parse_date_any(get_value(item, EndKeys, 1))
         IN  IF si # NoDate /\ ei # NoDate
             THEN << Period(si, ei, DetalheOf(get_value(item, DetalheKeys, 1))) >>
             ELSE <<>>

\* the body of `for item in lst` in app.py: the periods the item adds
AppItem(item) ==
    IF ~IsDict(item) THEN <<>>
    ELSE LET si == parse_date_any(get_value(item, StartKeys, 1))
             ei == parse_date_any(get_value(item, EndKeys, 1))
         IN  IF si # NoDate
             THEN << Period(si, ei, DetalheOf(get_value(item, DetalheKeys, 1))) >>
             ELSE <<>>

RECURSIVE AppItems(_, _)
AppItems(lst, i) ==
    IF i > Len(lst.kids) THEN <<>> ELSE AppItem(lst.kids[i]) \o AppItems(lst, i + 1)

\* data_root of app.py and codigocomentado.py
DataRoot(resp_json) ==
    LET data == Get(resp_json, "data") IN
    IF IsList(data) /\ Truthy(data) THEN data.kids[1]
    ELSE IF IsDict(data) THEN data
    ELSE resp_json

\* `for k in candidate_list_keys` of app.py, from key number i with `periods`
RECURSIVE AppKeys(_, _, _)
AppKeys(data_root, i, periods) ==
    IF i > Len(candidate_list_keys) THEN periods
    ELSE LET lst == IF IsDict(data_root) THEN Get(data_root, candidate_list_keys[i])
                    ELSE None
             got == IF IsList(lst) THEN periods \o AppItems(lst, 1) ELSE periods
         IN  IF IsList(lst) /\ got # <<>> THEN got
             ELSE AppKeys(data_root, i + 1, got)

\* mutant of extract_periods_from_response: the periods of every candidate key
\* are merged
RECURSIVE AppKeysMerged(_, _)
AppKeysMerged(data_root, i) ==
    IF i > Len(candidate_list_keys) THEN <<>>
    ELSE LET lst == IF IsDict(data_root) THEN Get(data_root, candidate_list_keys[i])
                    ELSE None
         IN  (IF IsList(lst) THEN AppItems(lst, 1) ELSE <<>>)
             \o AppKeysMerged(data_root, i + 1)

ExtractPeriodsMerged(resp_json) ==
    IF ~Truthy(resp_json) \/ ~IsDict(resp_json) THEN <<>>
    ELSE AppKeysMerged(DataRoot(resp_json), 1)

\* extract_periods_from_response of Interface/app.py
extract_periods_from_response(resp_json) ==
    IF ~Truthy(resp_json) \/ ~IsDict(resp_json) THEN <<>>
    ELSE AppKeys(DataRoot(resp_json), 1, <<>>)

\* the body of `for item in lst` in codigocomentado.py
CodigoItem(item) ==
    IF ~IsDict(item) THEN <<>>
    ELSE LET si == parsear_data(pegar_valor(item, StartKeys, 1))
             ei == parsear_data(pegar_valor(item, EndKeys, 1))
         IN  IF si # NoDate
             THEN << Period(si, ei, DetalheOf(pegar_valor(item, DetalheKeys, 1))) >>
             ELSE <<>>

RECURSIVE CodigoItems(_, _)
CodigoItems(lst, i) ==
    IF i > Len(lst.kids) THEN <<>>
    ELSE CodigoItem(lst.kids[i]) \o CodigoItems(lst, i + 1)

RECURSIVE CodigoKeys(_, _, _)
CodigoKeys(data_root, i, periods) ==
    IF i > Len(candidate_list_keys) THEN periods
    ELSE LET lst == IF IsDict(data_root) THEN Get(data_root, candidate_list_keys[i])
                    ELSE None
             got == IF IsList(lst) THEN periods \o CodigoItems(lst, 1) ELSE periods
         IN  IF IsList(lst) /\ got # <<>> THEN got
             ELSE CodigoKeys(data_root, i + 1, got)

\* encontrar_listas of codigocomentado.py: a list whose first item is a dict is
\* collected and not searched further
RECURSIVE encontrar_listas(_)
RECURSIVE EncontrarEach(_, _)
encontrar_listas(obj) ==
    IF IsDict(obj) THEN EncontrarEach(obj.kids, 1)
    ELSE IF IsList(obj)
         THEN (IF Truthy(obj) /\ IsDict(obj.kids[1]) THEN << obj >>
               ELSE EncontrarEach(obj.kids, 1))
    ELSE <<>>
EncontrarEach(kids, i) ==
    IF i > Len(kids) THEN <<>>
    ELSE encontrar_listas(kids[i]) \o EncontrarEach(kids, i + 1)

RECURSIVE CodigoLists(_, _)
CodigoLists(listas, i) ==
    IF i > Len(listas) THEN <<>>
    ELSE CodigoItems(listas[i], 1) \o CodigoLists(listas, i + 1)

\* extrair_periodos_da_resposta of codigocomentado.py
extrair_periodos_da_resposta(resp_json) ==
    IF ~Truthy(resp_json) \/ ~IsDict(resp_json) THEN <<>>
    ELSE LET periods == CodigoKeys(DataRoot(resp_json), 1, <<>>) IN
         IF periods # <<>> THEN periods
         ELSE CodigoLists(encontrar_listas(resp_json), 1)

candidate_keys ==
    << "simples_nacional_periodos_anteriores", "simples_nacional_periodos",
       "periodos_simples", "simples_periodos", "simples_nacional" >>

\* a.get(k1) or a.get(k2) or ... of consulta_simples.py
RECURSIVE GetOr(_, _, _)
GetOr(item, keys, i) ==
    IF i = Len(keys) THEN Get(item, keys[i])
    ELSE Or(Get(item, keys[i]), GetOr(item, keys, i + 1))

CsStartKeys == <<"inicio_data", "inicio", "data_inicio", "normalizado_inicio_data">>
CsEndKeys   == <<"fim_data", "fim", "data_fim", "normalizado_fim_data">>

\* the body of `for item in ...` in consulta_simples.py; periods are (si, ei)
CsItem(item, startKeys) ==
    IF ~IsDict(item) THEN <<>>
    ELSE LET si == parse_date_any_cs(GetOr(item, startKeys, 1))
             ei == parse_date_any_cs(GetOr(item, CsEndKeys, 1))
         IN  IF si # NoDate THEN << <<si, ei>> >> ELSE <<>>

RECURSIVE CsItems(_, _, _)
CsItems(lst, startKeys, i) ==
    IF i > Len(lst.kids) THEN <<>>
    ELSE CsItem(lst.kids[i], startKeys) \o CsItems(lst, startKeys, i + 1)

\* `data` of consulta_simples.py: None unless resp_json['data'] is a non-empty
\* list or a dict
CsData(resp_json) ==
    IF ~Has(resp_json, "data") THEN None
    ELSE LET d == Get(resp_json, "data") IN
         IF IsList(d) /\ Truthy(d) THEN d.kids[1]
         ELSE IF IsDict(d) THEN d ELSE None

\* index of the first candidate key that holds a list in data, 0 when none
RECURSIVE CsFirstListKey(_, _)
CsFirstListKey(data, i) ==
    IF i > Len(candidate_keys) THEN 0
    ELSE IF Has(data, candidate_keys[i]) /\ IsList(Get(data, candidate_keys[i])) THEN i
    ELSE CsFirstListKey(data, i + 1)

\* find_lists of consulta_simples.py: a list of dicts is collected and searched
RECURSIVE find_lists(_)
RECURSIVE FindEach(_, _)
find_lists(obj) ==
    IF IsList(obj)
    THEN (IF Truthy(obj) /\ IsDict(obj.kids[1]) THEN << obj >> ELSE <<>>)
         \o FindEach(obj.kids, 1)
    ELSE IF IsDict(obj) THEN FindEach(obj.kids, 1)
    ELSE <<>>
FindEach(kids, i) ==
    IF i > Len(kids) THEN <<>> ELSE find_lists(kids[i]) \o FindEach(kids, i + 1)

RECURSIVE CsLists(_, _)
CsLists(lists, i) ==
    IF i > Len(lists) THEN <<>>
    ELSE CsItems(lists[i], CsStartKeys \o <<"data">>, 1) \o CsLists(lists, i + 1)

\* extract_periods_from_response of consulta_simples.py
extract_periods_cs(resp_json) ==
    IF ~Truthy(resp_json) \/ ~IsDict(resp_json) THEN <<>>
    ELSE LET data == CsData(resp_json)
             k    == IF Truthy(data) /\ IsDict(data) THEN CsFirstListKey(data, 1) ELSE 0
         IN  IF k # 0 THEN CsItems(Get(data, candidate_keys[k]), CsStartKeys, 1)
             ELSE CsLists(find_lists(resp_json), 1)

\* extract_periods_from_response of 'Usando Outras Tentativas/consulta.py'
extract_periods_receitaws(resp_json) ==
    IF ~Truthy(resp_json) \/ ~IsDict(resp_json) THEN <<>>
    ELSE IF Get(resp_json, "opcao_pelo_simples").t = "true"
    THEN LET si == parse_date_any(Get(resp_json, "data_opcao_pelo_simples"))
             ei == parse_date_any(Get(resp_json, "data_exclusao_do_simples"))
         IN  IF si # NoDate
             THEN << Period(si, ei, "ReceitaWS - opcao pelo Simples") >>
             ELSE <<>>
    ELSE <<>>

(***************************************************************************)
(* Period-coverage classifiers.  A result is the pair (bool, reason) the   *)
(* Python function returns.  The detalhe texts of the model carry no       *)
(* surrounding blanks, so .strip() leaves them as they are.                *)
(***************************************************************************)
Result(ok, motivo) == [ok |-> ok, motivo |-> motivo]

RECURSIVE Join(_, _, _)
Join(parts, sep, i) ==
    IF i > Len(parts) THEN ""
    ELSE IF i = Len(parts) THEN parts[i]
    ELSE parts[i] \o sep \o Join(parts, sep, i + 1)

\* ei if ei else consulta_date
EiEff(ei, consulta_date) == IF ei # NoDate THEN ei ELSE consulta_date

\* covers_year_with_rules of 'Usando Outras Tentativas/consulta.py', from period i
RECURSIVE CoversYearLoop(_, _, _, _)
CoversYearLoop(periods, year, consulta_date, i) ==
    IF i > Len(periods) THEN Result(FALSE, "nenhum_periodo_encontrado")
    ELSE LET si     == periods[i].start
             ei_eff == EiEff(periods[i].end, consulta_date)
             det    == periods[i].detalhe
         IN  IF si = NoDate THEN CoversYearLoop(periods, year, consulta_date, i + 1)
             ELSE IF year = YearOf(consulta_date)
                     /\ si <= Date(year, 1, 1) /\ ei_eff >= consulta_date
             THEN Result(TRUE, "cobre " \o ToStr(year) \o " ate "
                               \o IsoFormat(consulta_date) \o " [" \o det \o "]")
             ELSE IF si <= Date(year, 1, 1) /\ ei_eff >= Date(year, 12, 31)
             THEN Result(TRUE, "cobre " \o ToStr(year) \o " inteiro [" \o det \o "]")
             ELSE CoversYearLoop(periods, year, consulta_date, i + 1)

\* mutant of covers_year_with_rules: a missing end date never ends
CoversYearOpenEnded(periods, year, consulta_date) ==
    CoversYearLoop([i \in 1..Len(periods) |->
                       IF periods[i].end = NoDate
                       THEN [periods[i] EXCEPT !.end = Date(9999, 12, 31)]
                       ELSE periods[i]],
                   year, consulta_date, 1)

covers_year_with_rules(periods, year, consulta_date) ==
    CoversYearLoop(periods, year, consulta_date, 1)

\* cobre_ano_com_regras of codigocomentado.py, from period i with `motivos`
RECURSIVE CobreAnoLoop(_, _, _, _, _)
CobreAnoLoop(periods, year, consulta_date, i, motivos) ==
    IF i > Len(periods)
    THEN Result(FALSE, IF motivos # <<>>
                       THEN "nao_cobre_periodo_exigido; " \o Join(motivos, "; ", 1)
                       ELSE "nenhum_periodo_encontrado")
    ELSE LET si     == periods[i].start
             ei_eff == EiEff(periods[i].end, consulta_date)
             det    == periods[i].detalhe
         IN  IF si = NoDate
             THEN CobreAnoLoop(periods, year, consulta_date, i + 1, motivos)
             ELSE IF year = YearOf(consulta_date)
             THEN (IF si <= Date(year, 1, 1) /\ ei_eff >= consulta_date
                   THEN Result(TRUE, Join(Append(motivos,
                            "cobre_" \o ToStr(year) \o "_de_01_01_ate_"
                            \o IsoFormat(consulta_date) \o " ("
                            \o ToStr(DayOfYear(consulta_date)) \o " dias) ["
                            \o det \o "]"), "; ", 1))
                   ELSE CobreAnoLoop(periods, year, consulta_date, i + 1,
                            Append(motivos, "periodo_nao_cobre_ano_atual: "
                            \o IsoFormat(si) \o " - " \o IsoFormat(ei_eff)
                            \o " [" \o det \o "]")))
             ELSE IF si <= Date(year, 1, 1) /\ ei_eff >= Date(year, 12, 31)
             THEN Result(TRUE, Join(Append(motivos,
                      "cobre_" \o ToStr(year) \o "_inteiro: " \o IsoFormat(si)
                      \o " - " \o IsoFormat(ei_eff) \o " ("
                      \o ToStr(DayOfYear(Date(year, 12, 31))) \o " dias) ["
                      \o det \o "]"), "; ", 1))
             ELSE CobreAnoLoop(periods, year, consulta_date, i + 1, motivos)

\* mutant of cobre_ano_com_regras: the argument is ignored and date.today() is
\* read at every call
CobreAnoReadsClock(periods, year, consulta_date) ==
    CobreAnoLoop(periods, year, clock, 1, <<>>)

\* mutant of cobre_ano_com_regras: a missing end date never ends, as in
\* covers_year_strict
CobreAnoOpenEnded(periods, year, consulta_date) ==
    CobreAnoLoop([i \in 1..Len(periods) |->
                     IF periods[i].end = NoDate
                     THEN [periods[i] EXCEPT !.end = Date(9999, 12, 31)]
                     ELSE periods[i]],
                 year, consulta_date, 1, <<>>)

cobre_ano_com_regras(periods, year, consulta_date) ==
    CobreAnoLoop(periods, year, consulta_date, 1, <<>>)

\* covers_year_strict of consulta_simples.py, from period i; periods are (si, ei)
RECURSIVE CoversStrictLoop(_, _, _)
CoversStrictLoop(periods, year, i) ==
    IF i > Len(periods) THEN Result(FALSE, "sem_periodo_explicito")
    ELSE LET si     == periods[i][1]
             ei     == periods[i][2]
             ei_eff == IF ei # NoDate THEN ei ELSE Date(9999, 12, 31)
         IN  IF si = NoDate THEN CoversStrictLoop(periods, year, i + 1)
             ELSE IF si <= Date(year, 12, 31) /\ ei_eff >= Date(year, 1, 1)
             THEN Result(TRUE, "coberto_por_periodo " \o IsoFormat(si) \o " - "
                      \o (IF ei # NoDate THEN IsoFormat(ei_eff) ELSE "ongoing"))
             ELSE CoversStrictLoop(periods, year, i + 1)

\* mutant of covers_year_strict: a period without end date is skipped
CoversStrictClosedOnly(periods, year) ==
    CoversStrictLoop(SelectSeq(periods, LAMBDA t : t[2] # NoDate), year, 1)

covers_year_strict(periods, year) == CoversStrictLoop(periods, year, 1)

\* month_date_range of app.py
month_date_range(year, month) ==
    << Date(year, month, 1), Date(year, month, DaysInMonth(year, month)) >>

\* first loop of is_month_fully_covered: index of the first covering period, or 0
RECURSIVE FirstCovering(_, _, _, _, _)
FirstCovering(periods, start_month, end_month, hoje, i) ==
    IF i > Len(periods) THEN 0
    ELSE IF periods[i].start # NoDate
            /\ periods[i].start <= start_month
            /\ EiEff(periods[i].end, hoje) >= end_month
    THEN i
    ELSE FirstCovering(periods, start_month, end_month, hoje, i + 1)

\* second loop of is_month_fully_covered: index of the first period that ended
\* before the end of the month, or 0
RECURSIVE FirstExcluded(_, _, _)
FirstExcluded(periods, end_month, i) ==
    IF i > Len(periods) THEN 0
    ELSE IF periods[i].start # NoDate /\ periods[i].end # NoDate
            /\ periods[i].start <= end_month /\ periods[i].end < end_month
    THEN i
    ELSE FirstExcluded(periods, end_month, i + 1)

\* mutant of is_month_fully_covered: a missing end date never ends
IsMonthOpenEnded(periods, year, month, hoje) ==
    LET start_month == month_date_range(year, month)[1]
        end_month   == month_date_range(year, month)[2]
        c == FirstCovering(periods, start_month, end_month, Date(9999, 12, 31), 1)
    IN  IF c # 0 THEN Result(TRUE, "Permaneceu no Simples Nacional o mes inteiro.")
        ELSE Result(FALSE, "Nao optante/Nunca esteve no Simples Nacional neste mes.")

\* is_month_fully_covered of app.py; hoje is the date.today() it reads
is_month_fully_covered(periods, year, month, hoje) ==
    LET start_month == month_date_range(year, month)[1]
        end_month   == month_date_range(year, month)[2]
        c == FirstCovering(periods, start_month, end_month, hoje, 1)
        x == FirstExcluded(periods, end_month, 1)
    IN  IF c # 0
        THEN (IF year = YearOf(hoje) /\ month = MonthOf(hoje) /\ periods[c].end = NoDate
              THEN Result(TRUE, "Status atual e Simples Nacional.")
              ELSE Result(TRUE, "Permaneceu no Simples Nacional o mes inteiro."))
        ELSE IF x # 0
        THEN Result(FALSE, "Excluida do Simples Nacional em "
                           \o IsoFormat(periods[x].end) \o ".")
        ELSE Result(FALSE, "Nao optante/Nunca esteve no Simples Nacional neste mes.")

(***************************************************************************)
(* Rows and spreadsheets.  A row is the Python dict appended to `rows`, as *)
(* its (key, value) pairs in insertion order.  A cell the DataFrame has no *)
(* value for is "NaN".                                                     *)
(***************************************************************************)
KV(k, v) == [k |-> k, v |-> v]

RowHas(row, key) == \E i \in 1..Len(row) : row[i].k = key
RowGet(row, key) == row[CHOOSE i \in 1..Len(row) : row[i].k = key].v
RowKeys(row)     == [i \in 1..Len(row) |-> row[i].k]

\* one table line of pd.DataFrame(rows, columns=cols)
Reindex(row, cols) ==
    [c \in 1..Len(cols) |-> IF RowHas(row, cols[c]) THEN RowGet(row, cols[c]) ELSE "NaN"]

\* pd.DataFrame(rows, columns=cols).to_excel(...)
DataFrameCols(rs, cols) ==
    [written |-> TRUE, cols |-> cols, data |-> [r \in 1..Len(rs) |-> Reindex(rs[r], cols)]]

\* pd.DataFrame(rows).to_excel(...): the columns are the keys of the dicts, in
\* order of first appearance; no dict, no column
RECURSIVE InferCols(_, _, _)
InferCols(rs, i, cols) ==
    IF i > Len(rs) THEN cols
    ELSE InferCols(rs, i + 1,
             cols \o SelectSeq(RowKeys(rs[i]),
                               LAMBDA k : \A j \in 1..Len(cols) : cols[j] # k))

DataFrameInfer(rs) == DataFrameCols(rs, InferCols(rs, 1, <<>>))

NotWritten == [written |-> FALSE, cols |-> <<>>, data |-> <<>>]

YEARS == <<2020, 2021, 2022, 2023, 2024, 2025>>

\* "; ".join(f"{s} - {e} [{det}]" ...) of periods_to_string / periodos_para_string
PeriodText(p) ==
    (IF p.start # NoDate THEN IsoFormat(p.start) ELSE "") \o " - "
    \o (IF p.end # NoDate THEN IsoFormat(p.end) ELSE "ate hoje")
    \o " [" \o p.detalhe \o "]"

periods_to_string(periods) ==
    Join([i \in 1..Len(periods) |-> PeriodText(periods[i])], "; ", 1)

\* periodos_para_string of codigocomentado.py
periodos_para_string(periods) ==
    Join([i \in 1..Len(periods) |-> PeriodText(periods[i])], "; ", 1)

\* the text a value shows as in a cell
Cell(v) == IF IsNone(v) THEN "None" ELSE PyStr(v)

(***************************************************************************)
(* Texts of the current-status field.  lower, `in` and re.search are given *)
(* by what they yield on each text: naoOptante is                          *)
(* "nao optante" in text.lower(), optante is                               *)
(* "optante pelo simples nacional" in text.lower(), desde is the date      *)
(* captured by r"desde (\d{2}/\d{2}/\d{4})" ("" when there is no match).   *)
(***************************************************************************)
SituacaoTexts == {
    [text |-> "Optante pelo Simples Nacional desde 01/01/2018",
     naoOptante |-> FALSE, optante |-> TRUE, desde |-> "01/01/2018"],
    [text |-> "Optante pelo Simples Nacional",
     naoOptante |-> FALSE, optante |-> TRUE, desde |-> ""],
    [text |-> "Nao optante pelo Simples Nacional",
     naoOptante |-> TRUE, optante |-> TRUE, desde |-> ""],
    [text |-> "ATIVA", naoOptante |-> FALSE, optante |-> FALSE, desde |-> ""] }

IsSituacao(s) == \E e \in SituacaoTexts : e.text = s
Situacao(s)   == CHOOSE e \in SituacaoTexts : e.text = s

ContainsNaoOptante(s) == IsSituacao(s) /\ Situacao(s).naoOptante
ContainsOptante(s)    == IsSituacao(s) /\ Situacao(s).optante
DesdeOf(s)            == IF IsSituacao(s) THEN Situacao(s).desde ELSE ""

(***************************************************************************)
(* The loop bodies of the yearly batch scripts.  A body takes the CNPJ,    *)
(* the response r = [status, json] of the query and date.today(), and      *)
(* yields the rows it appends, the events it causes after the request      *)
(* (extract, classify per year, sleep) and whether it raises.  Sleeps are  *)
(* in tenths of a second.                                                  *)
(***************************************************************************)
NoStatus == 0

SleepConsulta == 210
SleepCodigo   == 5
SleepSimples  == 5
SleepBrasil   == 5

Ev(ev, d) == [ev |-> ev, d |-> d]

Outcome(crash, rs, evs) == [crash |-> crash, rows |-> rs, evs |-> evs]

ClassifyEvs == [i \in 1..Len(YEARS) |-> Ev("classify", YEARS[i])]

\* mutant of ErroConsultaRows: the failed query is not labelled and the CNPJ is
\* reported like a classified one
ErroConsultaRowsUnlabelled(cnpj) ==
    [i \in 1..Len(YEARS) |->
        << KV("CNPJ+ANO", cnpj \o "/" \o ToStr(YEARS[i])), KV("CNPJ", cnpj),
           KV("Ano", YEARS[i]), KV("Regime", "Outro Regime"),
           KV("Motivo", "nenhum_periodo_encontrado"), KV("Periodos_detectados", "") >>]

\* consulta.py lines 137-147 (the same rows in codigocomentado.py lines 235-246)
ErroConsultaRows(cnpj) ==
    [i \in 1..Len(YEARS) |->
        << KV("CNPJ+ANO", cnpj \o "/" \o ToStr(YEARS[i])), KV("CNPJ", cnpj),
           KV("Ano", YEARS[i]), KV("Regime", "ERRO_CONSULTA"),
           KV("Motivo", "erro_requisicao_ou_resp"), KV("Periodos_detectados", "") >>]

\* mutant of GetMsg: resp_json.get(key), without the default
GetMsgNoDefault(json, key) == Cell(Get(json, key))

\* resp_json.get(key, "sem mensagem")
GetMsg(json, key) == IF Has(json, key) THEN Cell(Get(json, key)) ELSE "sem mensagem"

\* mutant of ApiErrorRows: one row for the CNPJ, not one per year
ApiErrorRowsOnce(cnpj, json) ==
    << << KV("CNPJ+ANO", cnpj \o "/" \o ToStr(YEARS[1])), KV("CNPJ", cnpj),
          KV("Ano", YEARS[1]), KV("Regime", "API_ERROR"),
          KV("Motivo", GetMsg(json, "message")), KV("Periodos_detectados", "") >> >>

\* consulta.py lines 149-160
ApiErrorRows(cnpj, json) ==
    [i \in 1..Len(YEARS) |->
        << KV("CNPJ+ANO", cnpj \o "/" \o ToStr(YEARS[i])), KV("CNPJ", cnpj),
           KV("Ano", YEARS[i]), KV("Regime", "API_ERROR"),
           KV("Motivo", GetMsg(json, "message")), KV("Periodos_detectados", "") >>]

\* situacao_atual or ""
OrEmpty(v) == IF Truthy(v) THEN Cell(v) ELSE ""

\* consulta.py lines 162-177
ConsultaClassifyRows(cnpj, json, hoje) ==
    LET periods == extract_periods_receitaws(json) IN
    [i \in 1..Len(YEARS) |->
        LET res == covers_year_with_rules(periods, YEARS[i], hoje) IN
        << KV("CNPJ+ANO", cnpj \o "/" \o ToStr(YEARS[i])), KV("CNPJ", cnpj),
           KV("Ano", YEARS[i]),
           KV("Regime", IF res.ok THEN "Simples Nacional" ELSE "Outro Regime"),
           KV("Motivo", res.motivo),
           KV("Periodos_detectados", periods_to_string(periods)),
           KV("Situacao_Atual", OrEmpty(Get(json, "situacao"))) >>]

\* main of 'Usando Outras Tentativas/consulta.py', lines 134-180: one pass of
\* the loop body.  A JSON body that is not an object has no .get and raises.
ConsultaBody(cnpj, r, hoje) ==
    IF r.status = NoStatus \/ IsNone(r.json)
    THEN Outcome(FALSE, ErroConsultaRows(cnpj), <<>>)
    ELSE IF ~IsDict(r.json)
    THEN Outcome(TRUE, <<>>, <<>>)
    ELSE IF Get(r.json, "status").t = "str" /\ Get(r.json, "status").s = "ERROR"
    THEN Outcome(FALSE, ApiErrorRows(cnpj, r.json), <<>>)
    ELSE Outcome(FALSE, ConsultaClassifyRows(cnpj, r.json, hoje),
                 << Ev("extract", 0) >> \o ClassifyEvs \o << Ev("sleep", SleepConsulta) >>)

\* f"API_CODE_{code}"
ApiCodeLabel(code) == "API_CODE_" \o Cell(code)

\* codigocomentado.py lines 250-261
CodigoApiCodeRows(cnpj, json) ==
    [i \in 1..Len(YEARS) |->
        << KV("CNPJ+ANO", cnpj \o "/" \o ToStr(YEARS[i])), KV("CNPJ", cnpj),
           KV("Ano", YEARS[i]), KV("Regime", ApiCodeLabel(Get(json, "code"))),
           KV("Motivo", GetMsg(json, "code_message")),
           KV("Periodos_detectados", "") >>]

\* codigocomentado.py lines 264-275: situacao_atual (None when there is none)
CodigoSituacao(json) ==
    LET data_item == DataRoot(json) IN
    IF IsDict(data_item)
    THEN Or(Get(data_item, "simples_nacional_situacao"),
            Or(Get(data_item, "situacao_simples"), Get(data_item, "situacao")))
    ELSE None

\* codigocomentado.py lines 278-286: the extracted periods, or the period made
\* from "desde dd/mm/yyyy" in situacao_atual
CodigoPeriods(json) ==
    LET periods == extrair_periodos_da_resposta(json)
        sit     == CodigoSituacao(json)
        start   == parsear_data(JStr("", DesdeOf(Cell(sit))))
    IN  IF periods = <<>> /\ Truthy(sit) /\ ~ContainsNaoOptante(Cell(sit))
           /\ DesdeOf(Cell(sit)) # "" /\ start # NoDate
        THEN << Period(start, NoDate, "situacao_atual") >>
        ELSE periods

\* codigocomentado.py lines 288-307
CodigoClassifyRows(cnpj, json, hoje) ==
    LET periods == CodigoPeriods(json) IN
    [i \in 1..Len(YEARS) |->
        LET res == cobre_ano_com_regras(periods, YEARS[i], hoje) IN
        << KV("CNPJ+ANO", cnpj \o "/" \o ToStr(YEARS[i])), KV("CNPJ", cnpj),
           KV("Ano", YEARS[i]),
           KV("Regime", IF res.ok THEN "Simples Nacional" ELSE "Outro Regime"),
           KV("Motivo", res.motivo),
           KV("Periodos_detectados", periodos_para_string(periods)),
           KV("Situacao_Atual", OrEmpty(CodigoSituacao(json))) >>]

\* code is not None and code != 200
CodeIsError(code) == ~IsNone(code) /\ ~(code.t = "num" /\ code.n = 200)

\* main of codigocomentado.py, lines 232-309: one pass of the loop body
CodigoBody(cnpj, r, hoje) ==
    IF r.status = NoStatus \/ IsNone(r.json)
    THEN Outcome(FALSE, ErroConsultaRows(cnpj), <<>>)
    ELSE IF IsDict(r.json) /\ CodeIsError(Get(r.json, "code"))
    THEN Outcome(FALSE, CodigoApiCodeRows(cnpj, r.json), <<>>)
    ELSE IF ~IsDict(r.json)
    THEN Outcome(TRUE, <<>>, <<>>)
    ELSE Outcome(FALSE, CodigoClassifyRows(cnpj, r.json, hoje),
                 << Ev("extract", 0) >> \o ClassifyEvs \o << Ev("sleep", SleepCodigo) >>)

\* consulta_simples.py lines 184-185, 191-192, 200-207: the rows of an error
SimplesErrorRows(cnpj, regime, motivo) ==
    [i \in 1..Len(YEARS) |->
        << KV("CNPJ+ANO", cnpj \o "/" \o ToStr(YEARS[i])), KV("CNPJ", cnpj),
           KV("Ano", YEARS[i]), KV("Regime", regime), KV("Motivo", motivo) >>]

\* consulta_simples.py lines 230-240
SimplesClassifyRows(cnpj, json) ==
    LET periods == extract_periods_cs(json) IN
    [i \in 1..Len(YEARS) |->
        LET res == covers_year_strict(periods, YEARS[i]) IN
        << KV("CNPJ+ANO", cnpj \o ToStr(YEARS[i])), KV("CNPJ", cnpj),
           KV("Ano", YEARS[i]),
           KV("Regime", IF res.ok THEN "Simples Nacional" ELSE "Outro Regime"),
           KV("", ""), KV("Motivo", res.motivo) >>]

\* main of consulta_simples.py, lines 178-242: one pass of the loop body.
\* data_item.get raises when the first item of 'data' is not an object.
SimplesBody(cnpj, r, hoje) ==
    IF r.status = NoStatus
    THEN Outcome(FALSE, SimplesErrorRows(cnpj, "ERRO_REQUISICAO", "erro_requisicao"), <<>>)
    ELSE IF IsNone(r.json)
    THEN Outcome(FALSE, SimplesErrorRows(cnpj, "ERRO_RESP_NAO_JSON", "resp_nao_json"),
                 << Ev("sleep", SleepSimples) >>)
    ELSE IF ~IsDict(r.json)
    THEN Outcome(TRUE, <<>>, <<>>)
    ELSE IF ~(Get(r.json, "code").t = "num" /\ Get(r.json, "code").n = 200)
    THEN Outcome(FALSE, SimplesErrorRows(cnpj, ApiCodeLabel(Get(r.json, "code")),
                                         GetMsg(r.json, "code_message")), <<>>)
    ELSE IF Truthy(CsData(r.json)) /\ ~IsDict(CsData(r.json))
    THEN Outcome(TRUE, <<>>, <<>>)
    ELSE Outcome(FALSE, SimplesClassifyRows(cnpj, r.json),
                 << Ev("extract", 0) >> \o ClassifyEvs \o << Ev("sleep", SleepSimples) >>)

(***************************************************************************)
(* Usando BrasilAPI/consulta_simples.py                                    *)
(***************************************************************************)
\* parse_date of the BrasilAPI script: strptime(date_str, "%Y-%m-%d"), None
\* when the value is empty or strptime raises
parse_date(v) == IF ~Truthy(v) \/ v.t # "str" THEN NoDate ELSE strptime(v.s, "Y-m-d")

\* "SIMPLES" in forma.upper(), on the texts of the model
FormaTexts == { [text |-> "SIMPLES NACIONAL", simples |-> TRUE],
                [text |-> "Simples Nacional", simples |-> TRUE],
                [text |-> "LUCRO PRESUMIDO",  simples |-> FALSE] }

HasSimples(s) == \E e \in FormaTexts : e.text = s /\ e.simples

\* int(ano): the year, or 0 when int() raises
AnoInt(v) == IF v.t = "num" THEN v.n ELSE 0

\* whether extract_simples_years raises: j or an entry has no .get, the field
\* regime_tributario cannot be walked, or forma has no .upper
BrasilRaises(j) ==
    \/ ~IsDict(j)
    \/ LET rt == Get(j, "regime_tributario") IN
       /\ Truthy(rt)
       /\ \/ ~IsList(rt)
          \/ \E i \in 1..Len(rt.kids) :
                \/ ~IsDict(rt.kids[i])
                \/ LET forma == Get(rt.kids[i], "forma_de_tributacao") IN
                   Truthy(forma) /\ forma.t # "str"

\* the entries of regime_tributario (an empty or absent field gives none)
BrasilEntries(j) ==
    IF Truthy(Get(j, "regime_tributario")) THEN Get(j, "regime_tributario").kids ELSE <<>>

\* extract_simples_years, part 1: the years named by regime_tributario
BrasilRegimeYears(j) ==
    { AnoInt(Get(e, "ano")) :
        e \in { BrasilEntries(j)[i] : i \in
                  { i \in 1..Len(BrasilEntries(j)) :
                      /\ HasSimples(Cell(Get(BrasilEntries(j)[i], "forma_de_tributacao")))
                      /\ AnoInt(Get(BrasilEntries(j)[i], "ano")) >= 2020
                      /\ AnoInt(Get(BrasilEntries(j)[i], "ano")) <= 2025 } } }

\* the reason one entry of regime_tributario adds, as a list of 0 or 1 texts
BrasilEntryReason(e) ==
    LET forma == Get(e, "forma_de_tributacao") IN
    IF ~(Truthy(forma) /\ HasSimples(forma.s)) THEN <<>>
    ELSE IF AnoInt(Get(e, "ano")) = 0
    THEN << "regime_tributario:ano_invalido:" \o forma.s >>
    ELSE IF AnoInt(Get(e, "ano")) >= 2020 /\ AnoInt(Get(e, "ano")) <= 2025
    THEN << "regime_tributario:" \o ToStr(AnoInt(Get(e, "ano"))) \o ":" \o forma.s >>
    ELSE <<>>

RECURSIVE BrasilEntryReasons(_, _)
BrasilEntryReasons(entries, i) ==
    IF i > Len(entries) THEN <<>>
    ELSE BrasilEntryReason(entries[i]) \o BrasilEntryReasons(entries, i + 1)

Max(a, b) == IF a >= b THEN a ELSE b
Min(a, b) == IF a <= b THEN a ELSE b

\* extract_simples_years of the BrasilAPI script: (simples_years, reasons)
extract_simples_years(j) ==
    LET data_inicio == parse_date(Get(j, "data_opcao_pelo_simples"))
        data_fim    == parse_date(Get(j, "data_exclusao_do_simples"))
        start_year  == Max(YearOf(data_inicio), 2020)
        end_year    == Min(IF data_fim # NoDate THEN YearOf(data_fim) ELSE 2025, 2025)
    IN  [ years   |-> BrasilRegimeYears(j)
                      \cup (IF data_inicio # NoDate THEN start_year..end_year ELSE {}),
          reasons |-> BrasilEntryReasons(BrasilEntries(j), 1)
                      \o (IF data_inicio # NoDate
                          THEN << "periodo:" \o IsoFormat(data_inicio) \o " - "
                                  \o (IF data_fim # NoDate THEN IsoFormat(data_fim)
                                      ELSE "atual") >>
                          ELSE <<>>) ]

\* consultar_cnpj of the BrasilAPI script: the error text, "" when there is none
BrasilErro(r) ==
    IF r.status = NoStatus THEN "Exception:sem resposta"
    ELSE IF r.status = 200
    THEN (IF r.body = "json" THEN "" ELSE "Exception:resposta sem JSON")
    ELSE IF r.status = 429 THEN "Erro 429 (muitas requisicoes)"
    ELSE "Erro " \o ToStr(r.status)

\* processar lines 74-81
BrasilErroRows(cnpj, erro) ==
    [i \in 1..Len(YEARS) |->
        << KV("CNPJ+ANO", cnpj \o ToStr(YEARS[i])), KV("CNPJ", cnpj),
           KV("Ano", YEARS[i]), KV("Regime", "ERRO"), KV("Motivo", erro) >>]

\* processar lines 84-99
BrasilClassifyRows(cnpj, j) ==
    LET ex == extract_simples_years(j) IN
    [i \in 1..Len(YEARS) |->
        << KV("CNPJ+ANO", cnpj \o ToStr(YEARS[i])), KV("CNPJ", cnpj),
           KV("Ano", YEARS[i]),
           KV("Regime", IF YEARS[i] \in ex.years THEN "Simples Nacional"
                        ELSE "Outro Regime"),
           KV("Motivo", IF YEARS[i] \in ex.years THEN Join(ex.reasons, ";", 1)
                        ELSE "sem_evidencia_simples") >>]

\* processar of the BrasilAPI script, lines 70-101: one pass of the loop body
BrasilBody(cnpj, r, hoje) ==
    IF BrasilErro(r) # ""
    THEN Outcome(FALSE, BrasilErroRows(cnpj, BrasilErro(r)), <<>>)
    ELSE IF BrasilRaises(r.json)
    THEN Outcome(TRUE, <<>>, << Ev("extract", 0) >>)
    ELSE Outcome(FALSE, BrasilClassifyRows(cnpj, r.json),
                 << Ev("extract", 0), Ev("sleep", SleepBrasil) >>)

(***************************************************************************)
(* Responses.  r = [status, body, json]: status is the HTTP status         *)
(* (NoStatus when requests raised), body says whether the body parsed as   *)
(* JSON, json is what r.json() gave (None when it raised).                 *)
(***************************************************************************)
Resp(status, body, json) == [status |-> status, body |-> body, json |-> json]

RespException == Resp(NoStatus, "none", None)
RespHtml      == Resp(429, "text", None)
RespJsonList  == Resp(200, "json", JList("", << JStr("", "texto") >>))
\* an HTTP error whose body is JSON, but not an object
RespBadGateway == Resp(502, "json", JStr("", "Bad Gateway"))

ReceitaWsResponses == {
    RespException, RespHtml, RespJsonList, RespBadGateway,
    Resp(200, "json", JDict("", << JStr("status", "ERROR"),
                                   JStr("message", "CNPJ invalido") >>)),
    Resp(200, "json", JDict("", << JStr("status", "ERROR") >>)),
    Resp(200, "json", JDict("", << JStr("status", "OK"), JStr("situacao", "ATIVA"),
                                   JTrue("opcao_pelo_simples"),
                                   JStr("data_opcao_pelo_simples", "01/01/2018"),
                                   JNull("data_exclusao_do_simples") >>)),
    Resp(200, "json", JDict("", << JStr("status", "OK"), JStr("situacao", "ATIVA"),
                                   JTrue("opcao_pelo_simples"),
                                   JStr("data_opcao_pelo_simples", "01/07/2007"),
                                   JStr("data_exclusao_do_simples", "31/12/2021") >>)),
    Resp(200, "json", JDict("", << JStr("status", "OK"), JStr("situacao", "ATIVA"),
                                   JFalse("opcao_pelo_simples") >>)) }

ItemClosed == JDict("", << JStr("inicio_data", "01/07/2007"), JStr("fim_data", "31/12/2021"),
                           JStr("detalhamento", "Excluida por Ato Administrativo") >>)
ItemOpen   == JDict("", << JStr("data_inicio", "2019-07-01"), JNull("fim_data") >>)

InfosimplesResponses == {
    RespException, RespHtml, RespJsonList,
    Resp(200, "json", JDict("", << JNum("code", 600),
                                   JStr("code_message", "Parametro invalido") >>)),
    Resp(200, "json", JDict("", << JNum("code", 200),
        JList("data", << JDict("", <<
            JStr("simples_nacional_situacao",
                 "Optante pelo Simples Nacional desde 01/01/2018"),
            JList("simples_nacional_periodos_anteriores", <<>>) >>) >>) >>)),
    Resp(200, "json", JDict("", << JNum("code", 200),
        JList("data", << JDict("", <<
            JStr("simples_nacional_situacao", "Nao optante pelo Simples Nacional"),
            JList("simples_nacional_periodos_anteriores", << ItemClosed >>) >>) >>) >>)),
    Resp(200, "json", JDict("", << JNum("code", 200),
        JDict("data", << JList("periodos", << ItemOpen >>) >>) >>)),
    Resp(200, "json", JDict("", << JNum("code", 200),
        JList("data", << JStr("", "texto") >>) >>)) }

BrasilApiResponses == {
    RespException, RespHtml,
    Resp(404, "json", JDict("", << JStr("message", "CNPJ nao encontrado") >>)),
    Resp(200, "text", None),
    Resp(200, "json", None),
    Resp(200, "json", JDict("", <<
        JStr("data_opcao_pelo_simples", "2019-07-01"),
        JNull("data_exclusao_do_simples"),
        JList("regime_tributario", <<
            JDict("", << JNum("ano", 2021),
                         JStr("forma_de_tributacao", "SIMPLES NACIONAL") >>) >>) >>)),
    Resp(200, "json", JDict("", <<
        JList("regime_tributario", <<
            JDict("", << JNull("ano"),
                         JStr("forma_de_tributacao", "Simples Nacional") >>),
            JDict("", << JNum("ano", 2022),
                         JStr("forma_de_tributacao", "LUCRO PRESUMIDO") >>) >>) >>)),
    Resp(200, "json", JDict("", <<
        JStr("data_opcao_pelo_simples", "2020-01-15"),
        JStr("data_exclusao_do_simples", "2020-01-15") >>)) }

(***************************************************************************)
(* The batch loops as a state machine.                                     *)
(***************************************************************************)
Scripts  == {"consulta", "codigocomentado", "consulta_simples", "brasilapi"}
CnpjSet  == {"11222333000181", "00000000000191"}
Todays   == {Date(2024, 7, 15), Date(2026, 11, 3)}

SeqsUpTo(S, n) == UNION { [1..k -> S] : k \in 0..n }

FnIdle ==
    /\ fn = "" /\ fnArgs = <<>> /\ fnOut = <<>> /\ fnPrev = <<>> /\ clock = NoDate
SheetIdle ==
    /\ wb = <<>> /\ wbStep = "" /\ wbTmp = FALSE /\ wbOrig = <<>>
UiIdle ==
    /\ btn = "" /\ dialog = FALSE /\ workers = <<>> /\ httpd = "" /\ handler = ""
    /\ pending = <<>> /\ started = 0
BatchIdle ==
    /\ script = "" /\ cnpjs = <<>> /\ today = NoDate /\ pc = "" /\ idx = 0
    /\ rows = <<>> /\ resps = <<>> /\ log = <<>> /\ outFile = NotWritten
    /\ startYear = 0

Init ==
    /\ script \in Scripts
    /\ cnpjs \in SeqsUpTo(CnpjSet, MaxCnpjs)
    /\ today \in Todays
    /\ pc = "loop"
    /\ idx = 0
    /\ rows = <<>>
    /\ resps = <<>>
    /\ log = <<>>
    /\ outFile = NotWritten
    /\ startYear = 0
    /\ FnIdle /\ SheetIdle /\ UiIdle

\* one pass of a loop body whose outcome on response r is o
Step(r, o) ==
    /\ pc = "loop"
    /\ idx < Len(cnpjs)
    /\ resps' = Append(resps, r)
    /\ log' = log \o << [ev |-> "req", d |-> 0, i |-> idx + 1] >>
                  \o [k \in 1..Len(o.evs) |->
                        [ev |-> o.evs[k].ev, d |-> o.evs[k].d, i |-> idx + 1]]
    /\ IF o.crash
       THEN pc' = "crashed" /\ UNCHANGED <<idx, rows>>
       ELSE pc' = "loop" /\ idx' = idx + 1 /\ rows' = rows \o o.rows
    /\ UNCHANGED <<script, cnpjs, today, outFile, startYear, fnVars, sheetVars, uiVars>>

\* the DataFrame written once the loop has run out
Write(df) ==
    /\ pc = "loop"
    /\ idx = Len(cnpjs)
    /\ outFile' = df
    /\ pc' = "done"
    /\ UNCHANGED <<script, cnpjs, today, idx, rows, resps, log, startYear, fnVars,
                   sheetVars, uiVars>>

ConsultaCols ==
    << "CNPJ+ANO", "CNPJ", "Ano", "Regime", "Motivo", "Periodos_detectados",
       "Situacao_Atual" >>
SimplesCols == << "CNPJ+ANO", "CNPJ", "Ano", "Regime", "", "Motivo" >>

ConsultaIter ==
    /\ script = "consulta"
    /\ \E r \in ReceitaWsResponses : Step(r, ConsultaBody(cnpjs[idx + 1], r, today))
ConsultaWrite == script = "consulta" /\ Write(DataFrameCols(rows, ConsultaCols))

CodigoIter ==
    /\ script = "codigocomentado"
    /\ \E r \in InfosimplesResponses : Step(r, CodigoBody(cnpjs[idx + 1], r, today))
CodigoWrite == script = "codigocomentado" /\ Write(DataFrameCols(rows, ConsultaCols))

SimplesIter ==
    /\ script = "consulta_simples"
    /\ \E r \in InfosimplesResponses : Step(r, SimplesBody(cnpjs[idx + 1], r, today))
SimplesWrite == script = "consulta_simples" /\ Write(DataFrameCols(rows, SimplesCols))

BrasilIter ==
    /\ script = "brasilapi"
    /\ \E r \in BrasilApiResponses : Step(r, BrasilBody(cnpjs[idx + 1], r, today))
BrasilWrite == script = "brasilapi" /\ Write(DataFrameInfer(rows))

Next ==
    \/ ConsultaIter \/ ConsultaWrite
    \/ CodigoIter \/ CodigoWrite
    \/ SimplesIter \/ SimplesWrite
    \/ BrasilIter \/ BrasilWrite

Spec == Init /\ [][Next]_vars

(***************************************************************************)
(* Properties of the batch loops.                                          *)
(***************************************************************************)
NYears == Len(YEARS)

\* the rows appended by the i-th pass of the loop, when every pass so far
\* appended one row per year
RowsOf(i) == SubSeq(rows, NYears * (i - 1) + 1, NYears * i)

\* the query returned no status or no JSON
QueryFailed(r) == r.status = NoStatus \/ IsNone(r.json)

\* extraction or classification ran in pass i
Classified(i) == \E k \in 1..Len(log) : log[k].i = i /\ log[k].ev \in {"extract", "classify"}

\* C1: in main() of consulta.py and of codigocomentado.py, a query that returns
\* no status or no JSON appends exactly one row per year of YEARS for that CNPJ,
\* with Regime ERRO_CONSULTA and Motivo erro_requisicao_ou_resp, runs no
\* classification for it, and the loop goes on to the next CNPJ.
InvC1 ==
    script \in {"consulta", "codigocomentado"} =>
        /\ Len(rows) = NYears * idx
        /\ \A i \in 1..Len(resps) :
              QueryFailed(resps[i]) =>
                 /\ i <= idx
                 /\ pc # "crashed" \/ i < Len(resps)
                 /\ ~Classified(i)
                 /\ \A y \in 1..NYears :
                       /\ RowGet(RowsOf(i)[y], "CNPJ") = cnpjs[i]
                       /\ RowGet(RowsOf(i)[y], "Ano") = YEARS[y]
                       /\ RowGet(RowsOf(i)[y], "Regime") = "ERRO_CONSULTA"
                       /\ RowGet(RowsOf(i)[y], "Motivo") = "erro_requisicao_ou_resp"

\* C1 witness: a failed query was followed by the query of the next CNPJ, and
\* the batch ran to its end
WitC1 ==
    /\ script \in {"consulta", "codigocomentado"}
    /\ pc = "done"
    /\ Len(resps) = 2
    /\ QueryFailed(resps[1])
    /\ ~QueryFailed(resps[2])
    /\ Classified(2)

\* the response is the API's error object
IsApiError(r) ==
    /\ ~QueryFailed(r) /\ IsDict(r.json)
    /\ Get(r.json, "status").t = "str" /\ Get(r.json, "status").s = "ERROR"

\* C7: in main() of consulta.py, a response whose JSON has status == "ERROR"
\* appends exactly one row per year with Regime API_ERROR and Motivo the
\* response's message ("sem mensagem" when absent), runs neither extraction
\* nor classification for that CNPJ, and the loop goes on.
InvC7 ==
    script = "consulta" =>
        /\ Len(rows) = NYears * idx
        /\ \A i \in 1..Len(resps) :
              IsApiError(resps[i]) =>
                 /\ i <= idx
                 /\ pc # "crashed" \/ i < Len(resps)
                 /\ ~Classified(i)
                 /\ \A y \in 1..NYears :
                       /\ RowGet(RowsOf(i)[y], "CNPJ") = cnpjs[i]
                       /\ RowGet(RowsOf(i)[y], "Ano") = YEARS[y]
                       /\ RowGet(RowsOf(i)[y], "Regime") = "API_ERROR"
                       /\ RowGet(RowsOf(i)[y], "Motivo") =
                             (IF Has(resps[i].json, "message")
                              THEN Get(resps[i].json, "message").s
                              ELSE "sem mensagem")

\* C7 witness: an API error without a message, then a classified CNPJ
WitC7 ==
    /\ script = "consulta"
    /\ pc = "done"
    /\ Len(resps) = 2
    /\ IsApiError(resps[1])
    /\ ~Has(resps[1].json, "message")
    /\ Classified(2)

\* C3: between any two consecutive requests the loop sleeps the configured
\* interval, whatever the outcome of the earlier request.
InvC3 ==
    \A a, b \in 1..Len(log) :
        (/\ a < b
         /\ log[a].ev = "req" /\ log[b].ev = "req"
         /\ \A k \in (a + 1)..(b - 1) : log[k].ev # "req")
        => \E k \in (a + 1)..(b - 1) : log[k].ev = "sleep" /\ log[k].d > 0

\* the column list each script is written to produce
FixedCols ==
    CASE script = "consulta"         -> ConsultaCols
      [] script = "codigocomentado"  -> ConsultaCols
      [] script = "consulta_simples" -> SimplesCols
      [] OTHER -> << "CNPJ+ANO", "CNPJ", "Ano", "Regime", "Motivo" >>

\* C6: the written spreadsheet has the same column list for every input list,
\* the empty list and all-error runs included, and every row has a slot for
\* each column.
InvC6 ==
    outFile.written =>
        /\ outFile.cols = FixedCols
        /\ \A r \in 1..Len(outFile.data) : Len(outFile.data[r]) = Len(outFile.cols)

(***************************************************************************)
(* process_dataframe of Interface/app.py.                                  *)
(***************************************************************************)
SleepApp == 5

\* mutant of MonthsFrom: the months after hoje.month are not skipped
RECURSIVE MonthsWholeYears(_, _, _)
MonthsWholeYears(year, month, hoje) ==
    IF year > YearOf(hoje) THEN <<>>
    ELSE IF month > 12 THEN MonthsWholeYears(year + 1, 1, hoje)
    ELSE << <<year, month>> >> \o MonthsWholeYears(year, month + 1, hoje)

\* the (year, month) pairs process_dataframe classifies, in order: every month
\* of start_year..hoje.year except the months after hoje.month of hoje.year
RECURSIVE MonthsFrom(_, _, _)
MonthsFrom(year, month, hoje) ==
    IF year > YearOf(hoje) THEN <<>>
    ELSE IF month > 12 THEN MonthsFrom(year + 1, 1, hoje)
    ELSE IF year = YearOf(hoje) /\ month > MonthOf(hoje)
    THEN MonthsFrom(year, month + 1, hoje)
    ELSE << <<year, month>> >> \o MonthsFrom(year, month + 1, hoje)

\* app.py lines 197-211: data_item (an empty dict when 'data' is neither a
\* non-empty list nor a dict)
AppDataItem(resp_json) ==
    LET data_field == Get(resp_json, "data") IN
    IF IsList(data_field) /\ Len(data_field.kids) > 0 THEN data_field.kids[1]
    ELSE IF IsDict(data_field) THEN data_field
    ELSE JDict("", <<>>)

\* "data" in resp_json
InData(resp_json) ==
    \/ Has(resp_json, "data")
    \/ IsList(resp_json) /\ \E i \in 1..Len(resp_json.kids) :
          resp_json.kids[i].t = "str" /\ resp_json.kids[i].s = "data"

\* app.py lines 197-211: situacao_atual
AppSituacao(resp_json) ==
    IF Truthy(resp_json) /\ InData(resp_json)
    THEN Or(Get(AppDataItem(resp_json), "simples_nacional_situacao"),
            Or(Get(AppDataItem(resp_json), "situacao_simples"),
               Get(AppDataItem(resp_json), "situacao")))
    ELSE None

\* whether lines 197-213 raise: `in` on a number or a bool, indexing a list
\* with "data", .get on an item that is no dict, .lower on a status that is no
\* string
AppRaises(resp_json) ==
    \/ Truthy(resp_json) /\ resp_json.t \in {"num", "true"}
    \/ IsList(resp_json) /\ InData(resp_json)
    \/ /\ IsDict(resp_json) /\ Truthy(resp_json) /\ InData(resp_json)
       /\ \/ ~IsDict(AppDataItem(resp_json))
          \/ Truthy(AppSituacao(resp_json)) /\ AppSituacao(resp_json).t # "str"

\* app.py lines 213-228: the periods after the synthetic open period was added
AppPeriods(resp_json, hoje) ==
    LET periods == extract_periods_from_response(resp_json)
        texto   == OrEmpty(AppSituacao(resp_json))
        start_date ==
            IF DesdeOf(texto) # "" THEN parse_date_any(JStr("", DesdeOf(texto)))
            ELSE Date(YearOf(hoje), 1, 1)
    IN  IF ContainsOptante(texto) /\ ~(\E i \in 1..Len(periods) : periods[i].end = NoDate)
        THEN Append(periods, Period(start_date, NoDate,
                        "Situacao Atual: Optante pelo Simples Nacional"))
        ELSE periods

\* f"{p['start']} - {p.get('end', 'ate hoje')} [{p.get('detalhe', '')}]": the
\* key 'end' is always there, so a missing end shows as None
AppPeriodText(p) ==
    (IF p.start # NoDate THEN IsoFormat(p.start) ELSE "None") \o " - "
    \o (IF p.end # NoDate THEN IsoFormat(p.end) ELSE "None")
    \o " [" \o p.detalhe \o "]"

\* app.py lines 230-253: the rows of one CNPJ
AppRows(cnpj, resp_json, hoje, start_year) ==
    LET periods == AppPeriods(resp_json, hoje)
        months  == MonthsFrom(start_year, 1, hoje)
    IN  [i \in 1..Len(months) |->
            LET res == is_month_fully_covered(periods, months[i][1], months[i][2], hoje) IN
            << KV("CNPJ", cnpj),
               KV("MES", "01/" \o Two(months[i][2]) \o "/" \o ToStr(months[i][1])),
               KV("REGIME", IF res.ok THEN "Simples Nacional" ELSE "Outro Regime"),
               KV("MOTIVO", res.motivo),
               KV("Periodos_detectados",
                  Join([k \in 1..Len(periods) |-> AppPeriodText(periods[k])], "; ", 1)),
               KV("Situacao_Atual", OrEmpty(AppSituacao(resp_json))) >>]

\* query_infosimples of app.py, lines 150-174: the pair (status, j) it returns
query_infosimples(r) ==
    IF r.status = NoStatus THEN << NoStatus, None >> ELSE << r.status, r.json >>

\* process_dataframe lines 191-255: one pass of the loop body
AppBody(cnpj, r, hoje, start_year) ==
    LET resp_json == query_infosimples(r)[2] IN
    IF AppRaises(resp_json)
    THEN Outcome(TRUE, <<>>, << Ev("extract", 0) >>)
    ELSE Outcome(FALSE, AppRows(cnpj, resp_json, hoje, start_year),
                 << Ev("extract", 0) >>
                 \o [i \in 1..Len(MonthsFrom(start_year, 1, hoje)) |-> Ev("classify", i)]
                 \o << Ev("sleep", SleepApp) >>)

AppResponses ==
    InfosimplesResponses \cup {
        Resp(200, "json", JDict("", << JNum("code", 200),
            JList("data", << JDict("", <<
                JStr("simples_nacional_situacao", "Optante pelo Simples Nacional"),
                JList("simples_nacional_periodos_anteriores", << ItemClosed >>) >>) >>) >>)),
        Resp(200, "json", JDict("", << JNum("code", 200),
            JList("data", << JDict("", <<
                JStr("simples_nacional_situacao", "Nao optante pelo Simples Nacional"),
                JList("simples_nacional_periodos_anteriores", <<>>) >>) >>) >>)) }

AppCols == << "CNPJ", "MES", "REGIME", "MOTIVO", "Periodos_detectados", "Situacao_Atual" >>

\* lists without repetition, as .unique() leaves them
IsUnique(sq) == \A i, j \in 1..Len(sq) : i # j => sq[i] # sq[j]

InitApp ==
    /\ script = "app"
    /\ cnpjs \in { sq \in SeqsUpTo(CnpjSet, MaxCnpjs) : IsUnique(sq) }
    /\ today \in Todays
    /\ startYear \in { YearOf(today) - 1, YearOf(today), YearOf(today) + 1 }
    /\ pc = "loop"
    /\ idx = 0
    /\ rows = <<>>
    /\ resps = <<>>
    /\ log = <<>>
    /\ outFile = NotWritten
    /\ FnIdle /\ SheetIdle /\ UiIdle

AppIter ==
    /\ script = "app"
    /\ \E r \in AppResponses : Step(r, AppBody(cnpjs[idx + 1], r, today, startYear))

AppReturn == script = "app" /\ Write(DataFrameCols(rows, AppCols))

NextApp == AppIter \/ AppReturn

SpecApp == InitApp /\ [][NextApp]_vars

\* the number of rows process_dataframe appends per CNPJ
NMonths == Len(MonthsFrom(startYear, 1, today))

AppRowsOf(i) == SubSeq(rows, NMonths * (i - 1) + 1, NMonths * i)

\* C2: in process_dataframe, when query_infosimples fails for a CNPJ (it
\* returns (None, None) or a response with no JSON), every row of that CNPJ
\* carries an error label in REGIME, never 'Simples Nacional' or 'Outro Regime'.
InvC2 ==
    script = "app" =>
        \A i \in 1..idx :
            QueryFailed(resps[i]) =>
                \A m \in 1..NMonths :
                    RowGet(AppRowsOf(i)[m], "REGIME") \notin
                        {"Simples Nacional", "Outro Regime"}

(***************************************************************************)
(* The classifiers called on their own.  fnArgs holds the argument objects *)
(* (the period list as dicts and as (si, ei) tuples, the year, the month   *)
(* and consulta_date) and a copy of the lists as first given; clock is     *)
(* date.today(), which moves on between calls.  A call leaves in fnOut its *)
(* result and the clock it ran at, and moves the call before it to fnPrev. *)
(***************************************************************************)
PeriodSamples == {
    Period(Date(2007, 7, 1), Date(2021, 12, 31), "Excluida por Ato Administrativo"),
    Period(Date(2018, 1, 1), NoDate, ""),
    Period(Date(2024, 1, 1), Date(2024, 7, 15), "Excluida por Comunicacao"),
    Period(Date(2025, 1, 2), NoDate, "Situacao Atual"),
    Period(Date(2021, 1, 1), Date(2021, 12, 30), ""),
    Period(NoDate, Date(2025, 12, 31), "sem inicio") }

YearMonths == { <<2021, 12>>, <<2024, 7>>, <<2025, 1>>, <<2026, 11>> }

\* the (si, ei) tuples consulta_simples.py keeps for the same periods
AsTuples(periods) == [i \in 1..Len(periods) |-> << periods[i].start, periods[i].end >>]

\* the day after dt
NextDay(dt) ==
    IF DayOf(dt) < DaysInMonth(YearOf(dt), MonthOf(dt)) THEN dt + 1
    ELSE IF MonthOf(dt) < 12 THEN Date(YearOf(dt), MonthOf(dt) + 1, 1)
    ELSE Date(YearOf(dt) + 1, 1, 1)

NoResult == Result(FALSE, "")
NoCall   == [fn |-> "", clock |-> NoDate, res |-> NoResult]

InitFn ==
    /\ \E ps \in SeqsUpTo(PeriodSamples, MaxPeriods), ym \in YearMonths, cd \in Todays :
          /\ fnArgs = [ given |-> ps, periods |-> ps, tuples |-> AsTuples(ps),
                        year |-> ym[1], month |-> ym[2], consulta_date |-> cd ]
          /\ clock = cd
    /\ fn = ""
    /\ fnOut = [res |-> NoResult, clock |-> NoDate]
    /\ fnPrev = NoCall
    /\ BatchIdle /\ SheetIdle /\ UiIdle

\* a call of `name` that returned res; the classifiers only read their
\* arguments, so the argument objects stay as they are
Call(name, res) ==
    /\ fn' = name
    /\ fnPrev' = [fn |-> fn, clock |-> fnOut.clock, res |-> fnOut.res]
    /\ fnOut' = [res |-> res, clock |-> clock]
    /\ UNCHANGED <<fnArgs, clock, batchVars, sheetVars, uiVars>>

CallCoversYearWithRules ==
    Call("covers_year_with_rules",
         covers_year_with_rules(fnArgs.periods, fnArgs.year, fnArgs.consulta_date))

CallCobreAno ==
    Call("cobre_ano_com_regras",
         cobre_ano_com_regras(fnArgs.periods, fnArgs.year, fnArgs.consulta_date))

CallCoversYearStrict ==
    Call("covers_year_strict", covers_year_strict(fnArgs.tuples, fnArgs.year))

CallIsMonthFullyCovered ==
    Call("is_month_fully_covered",
         is_month_fully_covered(fnArgs.periods, fnArgs.year, fnArgs.month, clock))

\* midnight passes
Tick ==
    /\ clock = fnArgs.consulta_date
    /\ clock' = NextDay(clock)
    /\ UNCHANGED <<fn, fnArgs, fnOut, fnPrev, batchVars, sheetVars, uiVars>>

NextFn ==
    \/ CallCoversYearWithRules \/ CallCobreAno \/ CallCoversYearStrict
    \/ CallIsMonthFullyCovered \/ Tick

SpecFn == InitFn /\ [][NextFn]_vars

Classifiers == { "covers_year_with_rules", "cobre_ano_com_regras", "covers_year_strict",
                 "is_month_fully_covered" }

CoveredC8(periods, year, consulta_date) ==
    \E i \in 1..Len(periods) :
        /\ periods[i].start # NoDate
        /\ periods[i].start <= Date(year, 1, 1)
        /\ LET eff == IF periods[i].end # NoDate THEN periods[i].end ELSE consulta_date
           IN  IF year = YearOf(consulta_date) THEN eff >= consulta_date
               ELSE eff >= Date(year, 12, 31)

\* C8: cobre_ano_com_regras returns True exactly when some period with a start
\* date starts on or before 1 January of the year and its effective end (its
\* end, or consulta_date when missing) is >= 31 December of the year, or, for
\* the consultation year, >= consulta_date.
InvC8 ==
    fn = "cobre_ano_com_regras" =>
        (fnOut.res.ok <=> CoveredC8(fnArgs.periods, fnArgs.year, fnArgs.consulta_date))

\* C8 witness: the consultation year, covered by a period that ends on the
\* consultation date, after a period that does not cover it
WitC8 ==
    /\ fn = "cobre_ano_com_regras"
    /\ fnOut.res.ok
    /\ fnArgs.year = YearOf(fnArgs.consulta_date)
    /\ Len(fnArgs.periods) = 2
    /\ fnArgs.periods[2].end = fnArgs.consulta_date

(***************************************************************************)
(* The period extractors called on their own.  The response is built from  *)
(* a list of items put under a key, in one of the places the APIs use;     *)
(* ReceitaWS has no list, its one "item" is the response itself.  An item  *)
(* is described by its start and end texts ("" for a key that is absent,   *)
(* "null" for a JSON null) and the key each is filed under.                *)
(***************************************************************************)
ItemSamples == {
    [dict |-> TRUE,  sk |-> "inicio_data", sv |-> "01/07/2007", ek |-> "fim_data", ev |-> "31/12/2021"],
    [dict |-> TRUE,  sk |-> "data_inicio", sv |-> "2020-01-15", ek |-> "data_fim", ev |-> ""],
    [dict |-> TRUE,  sk |-> "inicio_data", sv |-> "01/01/2018", ek |-> "fim_data", ev |-> "null"],
    [dict |-> TRUE,  sk |-> "inicio_data", sv |-> "",           ek |-> "fim_data", ev |-> "31/12/2021"],
    [dict |-> TRUE,  sk |-> "inicio_data", sv |-> "lixo",       ek |-> "fim_data", ev |-> "31/12/2021"],
    [dict |-> TRUE,  sk |-> "inicio",      sv |-> "31/02/2020", ek |-> "fim",      ev |-> ""],
    [dict |-> TRUE,  sk |-> "inicio_data", sv |-> "null",       ek |-> "fim_data", ev |-> "null"],
    [dict |-> FALSE, sk |-> "",            sv |-> "",           ek |-> "",         ev |-> ""] }

ListKeys == { "simples_nacional_periodos_anteriores", "periodos", "historico" }
Shapes   == { "root", "data_dict", "data_list" }

\* the JSON entry of a text filed under key k
Entry(k, v) ==
    IF v = "" THEN <<>> ELSE IF v = "null" THEN << JNull(k) >> ELSE << JStr(k, v) >>

ItemJson(d) ==
    IF d.dict THEN JDict("", Entry(d.sk, d.sv) \o Entry(d.ek, d.ev)
                             \o << JStr("detalhamento", "Excluida por Ato Administrativo") >>)
    ELSE JStr("", "texto")

InfosimplesJson(items, key, shape) ==
    LET lst == JList(key, [i \in 1..Len(items) |-> ItemJson(items[i])]) IN
    CASE shape = "root"      -> JDict("", << lst >>)
      [] shape = "data_dict" -> JDict("", << JNum("code", 200), JDict("data", << lst >>) >>)
      [] OTHER               -> JDict("", << JNum("code", 200),
                                             JList("data", << JDict("", << lst >>) >>) >>)

ReceitaJson(items) ==
    IF items # <<>> /\ items[1].dict
    THEN JDict("", << JTrue("opcao_pelo_simples") >>
                   \o Entry("data_opcao_pelo_simples", items[1].sv)
                   \o Entry("data_exclusao_do_simples", items[1].ev))
    ELSE JDict("", << JFalse("opcao_pelo_simples") >>)

InitExtract ==
    /\ \E items \in SeqsUpTo(ItemSamples, MaxItems), key \in ListKeys, shape \in Shapes :
          fnArgs = [ items |-> items, key |-> key, shape |-> shape,
                     json |-> InfosimplesJson(items, key, shape),
                     receita |-> ReceitaJson(items) ]
    /\ fn = "" /\ fnOut = <<>> /\ fnPrev = <<>> /\ clock = NoDate
    /\ BatchIdle /\ SheetIdle /\ UiIdle

Extract(name, periods) ==
    /\ fn' = name
    /\ fnOut' = periods
    /\ UNCHANGED <<fnArgs, fnPrev, clock, batchVars, sheetVars, uiVars>>

ExtractApp      == Extract("app.py", extract_periods_from_response(fnArgs.json))
ExtractCodigo   == Extract("codigocomentado.py", extrair_periodos_da_resposta(fnArgs.json))
ExtractSimples  == Extract("consulta_simples.py", extract_periods_cs(fnArgs.json))
ExtractReceita  == Extract("consulta.py", extract_periods_receitaws(fnArgs.receita))

NextExtract == ExtractApp \/ ExtractCodigo \/ ExtractSimples \/ ExtractReceita

SpecExtract == InitExtract /\ [][NextExtract]_vars

Extractors == { "app.py", "codigocomentado.py", "consulta_simples.py", "consulta.py" }

\* start and end of a returned period: consulta_simples.py returns (si, ei)
\* tuples, the others dicts
StartOfP(p) == IF fn = "consulta_simples.py" THEN p[1] ELSE p.start
EndOfP(p)   == IF fn = "consulta_simples.py" THEN p[2] ELSE p.end

\* the date the script's parser reads in a text ("" and "null": no date)
ParsedBy(name, v) ==
    IF v \in {"", "null"} THEN NoDate
    ELSE IF name = "consulta_simples.py" THEN parse_date_any_cs(JStr("", v))
    ELSE parse_date_any(JStr("", v))

\* the items the extractor called last looks at: the response itself for
\* consulta.py; the list, when it is under one of the script's candidate keys
\* (consulta_simples.py looks for them under 'data' only) or, for the two
\* scripts that scan the whole JSON, starts with a dict (codigocomentado.py
\* does not look inside a list of dicts, such as a 'data' list)
ItemsSeen ==
    LET items == fnArgs.items
        InKeys(keys) == \E k \in 1..Len(keys) : keys[k] = fnArgs.key
        all == { i \in 1..Len(items) : items[i].dict }
    IN  CASE fn = "consulta.py" -> all \cap {1}
          [] fn = "app.py" -> IF InKeys(candidate_list_keys) THEN all ELSE {}
          [] fn = "codigocomentado.py" ->
                IF InKeys(candidate_list_keys)
                      \/ (fnArgs.shape # "data_list" /\ items # <<>> /\ items[1].dict)
                THEN all ELSE {}
          [] OTHER ->
                IF (fnArgs.shape # "root" /\ InKeys(candidate_keys))
                      \/ (items # <<>> /\ items[1].dict)
                THEN all ELSE {}

\* C10: every period an extractor returns has a start date; an item whose
\* start is missing or unparseable adds no period (there are no more periods
\* than items with a readable start), and an item with a readable start and
\* no end is returned with end = None.
InvC10 ==
    fn \in Extractors =>
        /\ \A i \in 1..Len(fnOut) : StartOfP(fnOut[i]) # NoDate
        /\ Len(fnOut) <= Cardinality({ i \in ItemsSeen :
                                         ParsedBy(fn, fnArgs.items[i].sv) # NoDate })
        /\ \A i \in ItemsSeen :
              (/\ ParsedBy(fn, fnArgs.items[i].sv) # NoDate
               /\ fnArgs.items[i].ev \in {"", "null"})
              => \E j \in 1..Len(fnOut) :
                    /\ StartOfP(fnOut[j]) = ParsedBy(fn, fnArgs.items[i].sv)
                    /\ EndOfP(fnOut[j]) = NoDate

\* C10 witness: app.py was given an item with an unparseable start and an item
\* with a start and no end, and returned one period, with end = None
WitC10 ==
    /\ fn = "app.py"
    /\ Len(fnArgs.items) = 2
    /\ fnArgs.items[1].sv = "lixo"
    /\ fnArgs.items[2].sv = "01/01/2018" /\ fnArgs.items[2].ev = "null"
    /\ Len(fnOut) = 1
    /\ fnOut[1].end = NoDate

(***************************************************************************)
(* add_sheet_into_excel_bytes of Interface/app.py, one action per change   *)
(* it makes to the workbook.  A sheet is its title, its sheet_state and    *)
(* who made it: "" for a sheet of the uploaded file, "tmp" for the         *)
(* function's temporary sheet, "data" for the sheet to_excel writes.       *)
(***************************************************************************)
sheet_name == "CONSULTA"
tmp_name   == "_tmp_visible_"

Sheet(title, state, by) == [title |-> title, state |-> state, by |-> by]

sheetnames(workbook) == { workbook[i].title : i \in 1..Len(workbook) }

visible_count(workbook) ==
    Cardinality({ i \in 1..Len(workbook) : workbook[i].state = "visible" })

\* openpyxl's avoid_duplicate_name: a title already in use gets the next free
\* number appended
avoid_duplicate_name(names, value) ==
    IF value \notin names THEN value
    ELSE LET counts == { n \in 1..(Cardinality(names) + 1) : (value \o ToStr(n)) \in names }
             highest == IF counts = {} THEN 0 ELSE CHOOSE n \in counts : \A m \in counts : m <= n
         IN  value \o ToStr(highest + 1)

\* Workbook.create_sheet(title): a visible sheet at the end
create_sheet(workbook, title, by) ==
    Append(workbook, Sheet(avoid_duplicate_name(sheetnames(workbook), title), "visible", by))

\* Workbook.remove(workbook[title])
remove(workbook, title) ==
    LET Keep(ws) == ws.title # title IN SelectSeq(workbook, Keep)

SheetTitles == { "CONSULTA", "_tmp_visible_", "Dados", "Plan1" }

\* the workbooks load_workbook can return: sheets with distinct titles
Workbooks ==
    { w \in SeqsUpTo(SheetTitles \X {"visible", "hidden"}, MaxSheets) :
        /\ Len(w) >= 1
        /\ \A i, j \in 1..Len(w) : i # j => w[i][1] # w[j][1] }

InitSheet ==
    /\ \E w \in Workbooks : wb = [i \in 1..Len(w) |-> Sheet(w[i][1], w[i][2], "")]
    /\ wbOrig = wb
    /\ wbStep = "loaded"
    /\ wbTmp = FALSE
    /\ BatchIdle /\ FnIdle /\ UiIdle

\* sheet_name is there and at most one sheet is visible: the temporary first
CreateTmpBeforeRemove ==
    /\ wbStep = "loaded"
    /\ sheet_name \in sheetnames(wb) /\ visible_count(wb) <= 1
    /\ wb' = create_sheet(wb, tmp_name, "tmp")
    /\ wbTmp' = TRUE
    /\ wbStep' = "remove"
    /\ UNCHANGED <<wbOrig, batchVars, fnVars, uiVars>>

NoTmpNeeded ==
    /\ wbStep = "loaded"
    /\ ~(sheet_name \in sheetnames(wb) /\ visible_count(wb) <= 1)
    /\ wbStep' = IF sheet_name \in sheetnames(wb) THEN "remove" ELSE "check"
    /\ UNCHANGED <<wb, wbTmp, wbOrig, batchVars, fnVars, uiVars>>

RemoveOld ==
    /\ wbStep = "remove"
    /\ wb' = remove(wb, sheet_name)
    /\ wbStep' = "check"
    /\ UNCHANGED <<wbTmp, wbOrig, batchVars, fnVars, uiVars>>

\* if visible_count(wb) == 0: create the temporary
CheckVisible ==
    /\ wbStep = "check"
    /\ IF visible_count(wb) = 0
       THEN wb' = create_sheet(wb, tmp_name, "tmp") /\ wbTmp' = TRUE
       ELSE UNCHANGED <<wb, wbTmp>>
    /\ wbStep' = "write"
    /\ UNCHANGED <<wbOrig, batchVars, fnVars, uiVars>>

\* df_to_add.to_excel(writer, sheet_name=sheet_name): book.create_sheet() and
\* wks.title = sheet_name
ToExcel ==
    /\ wbStep = "write"
    /\ wb' = create_sheet(wb, sheet_name, "data")
    /\ wbStep' = "cleanup"
    /\ UNCHANGED <<wbTmp, wbOrig, batchVars, fnVars, uiVars>>

\* if created_tmp and tmp_name in writer.book.sheetnames: remove it; save
Cleanup ==
    /\ wbStep = "cleanup"
    /\ wb' = IF wbTmp /\ tmp_name \in sheetnames(wb) THEN remove(wb, tmp_name) ELSE wb
    /\ wbStep' = "returned"
    /\ UNCHANGED <<wbTmp, wbOrig, batchVars, fnVars, uiVars>>

NextSheet ==
    \/ CreateTmpBeforeRemove \/ NoTmpNeeded \/ RemoveOld
    \/ CheckVisible \/ ToExcel \/ Cleanup

SpecSheet == InitSheet /\ [][NextSheet]_vars

\* C9: once the function has changed the workbook there is always a visible
\* sheet, and the workbook it returns has exactly one sheet named sheet_name,
\* the one holding the new data, and no temporary sheet the function created.
InvC9 ==
    /\ wb # wbOrig => visible_count(wb) >= 1
    /\ wbStep = "returned" =>
          /\ Cardinality({ i \in 1..Len(wb) : wb[i].title = sheet_name }) = 1
          /\ \A i \in 1..Len(wb) : wb[i].title = sheet_name => wb[i].by = "data"
          /\ \A i \in 1..Len(wb) : wb[i].by # "tmp"

(***************************************************************************)
(* Interface/apps.py: the Tk main loop, the worker threads select_and_run  *)
(* starts, and the thread that runs httpd.serve_forever.  workers counts   *)
(* the worker threads at each position (load: before load_user_module has  *)
(* returned, main: inside mod.main(), after: its root.after callbacks are  *)
(* queued); handler counts the upload requests whose do_POST is inside     *)
(* mod.main(); pending counts the uploads sent and not yet accepted.       *)
(***************************************************************************)
InitUI ==
    /\ btn = "normal"
    /\ dialog = FALSE
    /\ workers = [load |-> 0, main |-> 0, after |-> 0]
    /\ httpd = "none"
    /\ handler = 0
    /\ pending = 0
    /\ started = 0
    /\ BatchIdle /\ FnIdle /\ SheetIdle

\* mutant of ServeLoopFree: a ThreadingHTTPServer, one thread per request
ServeLoopThreaded(h) == TRUE

\* HTTPServer handles one request at a time: serve_forever calls do_POST in
\* its own thread and accepts the next connection when do_POST has returned
ServeLoopFree(h) == h = 0

\* a click on btn_local: select_and_run opens the file dialog
ClickSelect ==
    /\ btn = "normal" /\ ~dialog
    /\ dialog' = TRUE
    /\ UNCHANGED <<btn, workers, httpd, handler, pending, started, batchVars, fnVars, sheetVars>>

\* if not path: return
CancelDialog ==
    /\ dialog
    /\ dialog' = FALSE
    /\ UNCHANGED <<btn, workers, httpd, handler, pending, started, batchVars, fnVars, sheetVars>>

\* threading.Thread(target=worker, daemon=True).start()
ChooseFile ==
    /\ dialog /\ started + pending < MaxRuns
    /\ dialog' = FALSE
    /\ workers' = [workers EXCEPT !.load = @ + 1]
    /\ started' = started + 1
    /\ UNCHANGED <<btn, httpd, handler, pending, batchVars, fnVars, sheetVars>>

\* worker: load_user_module() returns, the button is disabled, mod.main() begins
WorkerLoad ==
    /\ workers.load > 0
    /\ workers' = [workers EXCEPT !.load = @ - 1, !.main = @ + 1]
    /\ btn' = "disabled"
    /\ UNCHANGED <<dialog, httpd, handler, pending, started, batchVars, fnVars, sheetVars>>

\* worker: load_user_module() raises; except and finally queue their callbacks
WorkerLoadFails ==
    /\ workers.load > 0
    /\ workers' = [workers EXCEPT !.load = @ - 1, !.after = @ + 1]
    /\ UNCHANGED <<btn, dialog, httpd, handler, pending, started, batchVars, fnVars, sheetVars>>

\* worker: mod.main() returns or raises; finally queues the callback
WorkerMainEnds ==
    /\ workers.main > 0
    /\ workers' = [workers EXCEPT !.main = @ - 1, !.after = @ + 1]
    /\ UNCHANGED <<btn, dialog, httpd, handler, pending, started, batchVars, fnVars, sheetVars>>

\* the main loop runs the callback of finally: btn_local.config(state=NORMAL)
AfterCallback ==
    /\ workers.after > 0
    /\ workers' = [workers EXCEPT !.after = @ - 1]
    /\ btn' = "normal"
    /\ UNCHANGED <<dialog, httpd, handler, pending, started, batchVars, fnVars, sheetVars>>

\* start_local_upload_page: with a server running it only opens the browser;
\* HTTPServer(...) can fail on both ports
StartServer ==
    /\ ~dialog
    /\ httpd' \in (IF httpd = "none" THEN {"none", "serving"} ELSE {httpd})
    /\ UNCHANGED <<btn, dialog, workers, handler, pending, started, batchVars, fnVars, sheetVars>>

\* the browser posts a form to /upload
Upload ==
    /\ httpd = "serving" /\ started + pending < MaxRuns
    /\ pending' = pending + 1
    /\ UNCHANGED <<btn, dialog, workers, httpd, handler, started, batchVars, fnVars, sheetVars>>

\* do_POST up to mod.main() for a well-formed upload
HandlerAccept ==
    /\ httpd = "serving" /\ pending > 0 /\ ServeLoopFree(handler)
    /\ pending' = pending - 1
    /\ handler' = handler + 1
    /\ started' = started + 1
    /\ UNCHANGED <<btn, dialog, workers, httpd, batchVars, fnVars, sheetVars>>

\* do_POST answers 4xx, or 500 when load_user_module() raises: no main()
HandlerReject ==
    /\ httpd = "serving" /\ pending > 0 /\ ServeLoopFree(handler)
    /\ pending' = pending - 1
    /\ UNCHANGED <<btn, dialog, workers, httpd, handler, started, batchVars, fnVars, sheetVars>>

\* mod.main() returns or raises; do_POST answers and removes the temporary
HandlerMainEnds ==
    /\ handler > 0
    /\ handler' = handler - 1
    /\ UNCHANGED <<btn, dialog, workers, httpd, pending, started, batchVars, fnVars, sheetVars>>

\* stop_local_upload_page: httpd.shutdown() returns once serve_forever has left
\* its loop, which it does between two requests
StopServer ==
    /\ ~dialog /\ httpd = "serving" /\ ServeLoopFree(handler)
    /\ httpd' = "none"
    /\ pending' = 0
    /\ UNCHANGED <<btn, dialog, workers, handler, started, batchVars, fnVars, sheetVars>>

NextUI ==
    \/ ClickSelect \/ CancelDialog \/ ChooseFile \/ WorkerLoad \/ WorkerLoadFails
    \/ WorkerMainEnds \/ AfterCallback \/ StartServer \/ Upload \/ HandlerAccept
    \/ HandlerReject \/ HandlerMainEnds \/ StopServer

SpecUI == InitUI /\ [][NextUI]_vars

\* invocations of the user script's main() in progress
MainsInProgress == workers.main + handler

\* C4 as stated: at most one invocation of main() is in progress at any time.
InvC4 == MainsInProgress <= 1

\* C4 amended: apps.py is concurrent; only the upload handler is serialised,
\* so at most one do_POST is inside main() at any time, while worker threads
\* run main() alongside it and alongside each other.
InvC4Amended == handler <= 1

\* C4 witness: an upload handler and a desktop worker are inside main() at
\* the same time, with a second upload waiting for the handler
WitC4 == handler = 1 /\ workers.main >= 1 /\ pending >= 1

(***************************************************************************)
(* clean_cnpj / limpar_cnpj.  A text is the sequence of its characters;    *)
(* the raw texts are put together from pieces of CNPJs as they are typed.  *)
(***************************************************************************)
DigitChars == {"0", "1", "2", "3", "4", "5", "6", "7", "8", "9"}

\* re.sub(r'\D', '', text)
StripNonDigits(text) == SelectSeq(text, LAMBDA c : c \in DigitChars)

\* str.zfill(width) of a text of digits
zfill(text, width) ==
    IF Len(text) >= width THEN text
    ELSE [i \in 1..(width - Len(text)) |-> "0"] \o text

\* clean_cnpj of app.py, consulta.py and consulta_simples.py
clean_cnpj(text) == zfill(StripNonDigits(text), 14)

\* limpar_cnpj of codigocomentado.py
limpar_cnpj(text) == zfill(StripNonDigits(text), 14)

CnpjPieces == {
    << "1", "1", "2", "2", "2", "3", "3", "3", "0", "0", "0", "1", "8", "1" >>,
    << "1", "1", ".", "2", "2", "2", ".", "3", "3", "3" >>,
    << "/", "0", "0", "0", "1", "-", "8", "1" >>,
    << "1", "9", "1" >>,
    << ".", "0" >>,
    << " " >>,
    << "n", "/", "a" >> }

RECURSIVE Concat(_, _)
Concat(pieces, i) == IF i > Len(pieces) THEN <<>> ELSE pieces[i] \o Concat(pieces, i + 1)

RawCnpjs == { Concat(ps, 1) : ps \in SeqsUpTo(CnpjPieces, MaxPieces) }

InitClean ==
    /\ \E raw \in RawCnpjs : fnArgs = [raw |-> raw]
    /\ fn = "" /\ fnOut = <<>> /\ fnPrev = <<>> /\ clock = NoDate
    /\ BatchIdle /\ SheetIdle /\ UiIdle

CallCleanCnpj ==
    /\ fn' = "clean_cnpj"
    /\ fnOut' = clean_cnpj(fnArgs.raw)
    /\ UNCHANGED <<fnArgs, fnPrev, clock, batchVars, sheetVars, uiVars>>

CallLimparCnpj ==
    /\ fn' = "limpar_cnpj"
    /\ fnOut' = limpar_cnpj(fnArgs.raw)
    /\ UNCHANGED <<fnArgs, fnPrev, clock, batchVars, sheetVars, uiVars>>

NextClean == CallCleanCnpj \/ CallLimparCnpj

SpecClean == InitClean /\ [][NextClean]_vars

\* C11: whatever the input text, the result of clean_cnpj / limpar_cnpj holds
\* decimal digits only and is exactly 14 characters long.
InvC11 ==
    fn \in {"clean_cnpj", "limpar_cnpj"} =>
        /\ \A i \in 1..Len(fnOut) : fnOut[i] \in DigitChars
        /\ Len(fnOut) = 14

\* some period with a start date covers the whole month as C12 words it
CoveredC12(periods, year, month, hoje) ==
    \E i \in 1..Len(periods) :
        /\ periods[i].start # NoDate
        /\ periods[i].start <= Date(year, month, 1)
        /\ (IF periods[i].end # NoDate THEN periods[i].end ELSE hoje)
              >= Date(year, month, DaysInMonth(year, month))

\* C12: is_month_fully_covered returns True exactly when some period with a
\* start date starts on or before the first day of the month and its effective
\* end (its end, or today when missing) is on or after the last day of the
\* month; otherwise it returns False.
InvC12 ==
    fn = "is_month_fully_covered" =>
        (fnOut.res.ok <=> CoveredC12(fnArgs.periods, fnArgs.year, fnArgs.month, fnOut.clock))

\* C12 witness: a past month covered by the second period of the list, the
\* first one having no start date
WitC12 ==
    /\ fn = "is_month_fully_covered"
    /\ fnOut.res.ok
    /\ Len(fnArgs.periods) = 2
    /\ fnArgs.periods[1].start = NoDate
    /\ Date(fnArgs.year, fnArgs.month, 1) < fnOut.clock

\* C13: called for the current month, on any day of it, with an open-ended
\* period that started on or before the first day of the month,
\* is_month_fully_covered returns (True, 'Status atual e Simples Nacional.').
InvC13 ==
    (/\ fn = "is_month_fully_covered"
     /\ fnArgs.year = YearOf(fnOut.clock) /\ fnArgs.month = MonthOf(fnOut.clock)
     /\ \E i \in 1..Len(fnArgs.periods) :
           /\ fnArgs.periods[i].start # NoDate
           /\ fnArgs.periods[i].end = NoDate
           /\ fnArgs.periods[i].start <= Date(fnArgs.year, fnArgs.month, 1))
    => fnOut.res = Result(TRUE, "Status atual e Simples Nacional.")

\* the response says 'Nao optante pelo Simples Nacional' and holds no period
IsNaoOptante(r) ==
    /\ IsDict(r.json) /\ ~AppRaises(r.json)
    /\ OrEmpty(AppSituacao(r.json)) = "Nao optante pelo Simples Nacional"
    /\ extract_periods_from_response(r.json) = <<>>

\* C14: in process_dataframe a CNPJ whose status text is 'Nao optante pelo
\* Simples Nacional' and that has no extracted period gets no synthetic
\* period, so none of its month rows is labelled 'Simples Nacional'.
InvC14 ==
    script = "app" =>
        \A i \in 1..idx :
            IsNaoOptante(resps[i]) =>
                /\ AppPeriods(resps[i].json, today) = <<>>
                /\ \A k \in 1..Len(AppRowsOf(i)) :
                      RowGet(AppRowsOf(i)[k], "REGIME") # "Simples Nacional"

\* C15: the two copies of the yearly rule agree: whichever of
\* covers_year_with_rules and cobre_ano_com_regras was called, the boolean it
\* returned is the boolean the other copy returns for the same period list,
\* year and consultation date.
InvC15 ==
    /\ fn = "covers_year_with_rules" =>
          fnOut.res.ok = cobre_ano_com_regras(fnArgs.periods, fnArgs.year,
                                              fnArgs.consulta_date).ok
    /\ fn = "cobre_ano_com_regras" =>
          fnOut.res.ok = covers_year_with_rules(fnArgs.periods, fnArgs.year,
                                                fnArgs.consulta_date).ok

\* covers_year_with_rules was called for the consultation year on a list whose
\* first dated period fails the current-year rule (where the two copies take
\* different paths) and a later period passes it
WitC15 ==
    /\ fn = "covers_year_with_rules"
    /\ fnArgs.year = YearOf(fnArgs.consulta_date)
    /\ Len(fnArgs.periods) = 2
    /\ fnArgs.periods[1].start # NoDate
    /\ ~covers_year_with_rules(<< fnArgs.periods[1] >>, fnArgs.year,
                               fnArgs.consulta_date).ok
    /\ fnOut.res.ok

\* tuple t = (si, ei) has a start and intersects [1 January, 31 December] of
\* the year, a missing end never ending
IntersectsYear(t, year) ==
    /\ t[1] # NoDate
    /\ t[1] <= Date(year, 12, 31)
    /\ (t[2] = NoDate \/ t[2] >= Date(year, 1, 1))

\* C16: covers_year_strict returns True exactly when some period with a start
\* date intersects the year (start <= 31 December and end >= 1 January, a
\* missing end never ending); otherwise it returns
\* (False, 'sem_periodo_explicito').
InvC16 ==
    fn = "covers_year_strict" =>
        /\ fnOut.res.ok <=>
              \E i \in 1..Len(fnArgs.tuples) : IntersectsYear(fnArgs.tuples[i], fnArgs.year)
        /\ ~fnOut.res.ok => fnOut.res = Result(FALSE, "sem_periodo_explicito")

\* covers_year_strict returned True for a year that only an open-ended period
\* reaches, and that period starts inside the year
WitC16 ==
    /\ fn = "covers_year_strict"
    /\ fnOut.res.ok
    /\ \E i \in 1..Len(fnArgs.tuples) :
          /\ fnArgs.tuples[i][2] = NoDate
          /\ IntersectsYear(fnArgs.tuples[i], fnArgs.year)
          /\ fnArgs.tuples[i][1] > Date(fnArgs.year, 1, 1)
    /\ \A i \in 1..Len(fnArgs.tuples) :
          IntersectsYear(fnArgs.tuples[i], fnArgs.year) => fnArgs.tuples[i][2] = NoDate

\* the cell of column c in row r of the written sheet
OutCell(r, c) ==
    outFile.data[r][CHOOSE k \in 1..Len(outFile.cols) : outFile.cols[k] = c]

\* C17: when a yearly batch has finished, the written sheet has exactly one
\* row for every pair (input line, year of 2020..2025), whatever the outcomes
\* of the queries were; the rows are in input order and, for one CNPJ, in
\* ascending year order.
InvC17 ==
    (script \in {"consulta", "codigocomentado", "consulta_simples", "brasilapi"}
        /\ pc = "done") =>
        /\ outFile.written
        /\ Len(outFile.data) = NYears * Len(cnpjs)
        /\ YEARS = [y \in 1..6 |-> 2019 + y]
        /\ \A i \in 1..Len(cnpjs) : \A y \in 1..NYears :
              /\ OutCell(NYears * (i - 1) + y, "CNPJ") = cnpjs[i]
              /\ OutCell(NYears * (i - 1) + y, "Ano") = YEARS[y]

\* a batch finished on a list that names the same CNPJ twice; the first query
\* failed, the second one was answered with the API's error object
WitC17 ==
    /\ pc = "done"
    /\ Len(cnpjs) = 2
    /\ cnpjs[1] = cnpjs[2]
    /\ QueryFailed(resps[1])
    /\ IsApiError(resps[2])

\* the number of months from January of start_year to the current month
MonthsToDate ==
    IF startYear > YearOf(today) THEN 0
    ELSE 12 * (YearOf(today) - startYear) + MonthOf(today)

\* C18: process_dataframe produces, for each queried CNPJ, exactly one row for
\* every month from January of start_year up to and including the current
\* month, in chronological order, and none for a later month; when start_year
\* is later than the current year it produces no rows.
InvC18 ==
    (script = "app" /\ pc # "crashed") =>
        /\ Len(rows) = MonthsToDate * idx
        /\ startYear > YearOf(today) => rows = <<>>
        /\ \A i \in 1..idx : \A k \in 1..MonthsToDate :
              LET row == rows[MonthsToDate * (i - 1) + k] IN
              /\ RowGet(row, "CNPJ") = cnpjs[i]
              /\ RowGet(row, "MES") =
                    "01/" \o Two(((k - 1) % 12) + 1) \o "/"
                    \o ToStr(startYear + ((k - 1) \div 12))
        /\ pc = "done" => Len(outFile.data) = Len(rows)

\* process_dataframe returned for two CNPJs with start_year the year before the
\* current one: a whole year and a year cut at the current month
WitC18 ==
    /\ script = "app"
    /\ pc = "done"
    /\ idx = 2
    /\ startYear = YearOf(today) - 1
    /\ MonthOf(today) < 12
    /\ Len(outFile.data) = 2 * (12 + MonthOf(today))

(***************************************************************************)
(* process_dataframe of app.py from the uploaded sheet on.  fnArgs holds   *)
(* the sheet (whether it has the column 'cnpj_part', and the cells of that *)
(* column); pc = "read" is the point before read_cnpjs_from_df.            *)
(***************************************************************************)
MaxCells == 3

EmptyCell     == [t |-> "empty", s |-> <<>>]
TextCell(s)   == [t |-> "str", s |-> s]
IntCell(s)    == [t |-> "int", s |-> s]
FloatCell(s)  == [t |-> "float", s |-> s]
NaN           == [t |-> "nan", s |-> <<>>]

\* the cells a sheet may hold: nothing, a CNPJ typed with punctuation, the
\* same CNPJ typed as a number, and another CNPJ typed as digits
SheetCells == {
    EmptyCell,
    TextCell(<< "1", "1", ".", "2", "2", "2", ".", "3", "3", "3", "/",
                "0", "0", "0", "1", "-", "8", "1" >>),
    IntCell(<< "1", "1", "2", "2", "2", "3", "3", "3", "0", "0", "0", "1", "8", "1" >>),
    TextCell(<< "0", "0", "0", "0", "0", "0", "0", "0", "0", "0", "0", "1", "9", "1" >>) }

\* pd.read_excel on the column: an empty cell is NaN; a column of numbers
\* with an empty cell is a float64 column, any other column keeps its values
read_excel(cells) ==
    LET numeric == \A i \in 1..Len(cells) : cells[i].t \in {"int", "empty"}
        holes   == \E i \in 1..Len(cells) : cells[i].t = "empty"
    IN  [i \in 1..Len(cells) |->
            IF cells[i].t = "empty" THEN NaN
            ELSE IF numeric /\ holes THEN FloatCell(cells[i].s)
            ELSE cells[i]]

\* .dropna()
dropna(col) == SelectSeq(col, LAMBDA c : c.t # "nan")

\* .astype(str) of one value
astype_str(c) == IF c.t = "float" THEN c.s \o << ".", "0" >> ELSE c.s

\* .unique(): the distinct values in order of first appearance
RECURSIVE unique(_)
unique(sq) ==
    IF sq = <<>> THEN <<>>
    ELSE LET init == unique(SubSeq(sq, 1, Len(sq) - 1))
             last == sq[Len(sq)]
         IN  IF \E i \in 1..Len(init) : init[i] = last THEN init
             ELSE Append(init, last)

\* the cleaned CNPJ as the str the queries are made with
CleanCell(c) == Join(clean_cnpj(astype_str(c)), "", 1)

\* mutant of read_cnpjs_from_df: without .unique()
ReadCnpjsRepeated(df) ==
    LET col == dropna(df) IN [i \in 1..Len(col) |-> CleanCell(col[i])]

\* read_cnpjs_from_df of app.py, on the column 'cnpj_part'
read_cnpjs_from_df(df) ==
    LET col == dropna(df) IN unique([i \in 1..Len(col) |-> CleanCell(col[i])])

InitRead ==
    /\ script = "app"
    /\ cnpjs = <<>>
    /\ today = Date(2024, 7, 15)
    /\ startYear = YearOf(today)
    /\ pc = "read"
    /\ idx = 0
    /\ rows = <<>>
    /\ resps = <<>>
    /\ log = <<>>
    /\ outFile = NotWritten
    /\ fn = "process_dataframe"
    /\ \E has \in BOOLEAN, cells \in SeqsUpTo(SheetCells, MaxCells) :
          fnArgs = [has_col |-> has, cells |-> cells]
    /\ fnOut = <<>> /\ fnPrev = <<>> /\ clock = NoDate
    /\ SheetIdle /\ UiIdle

\* process_dataframe line 186: the column is read, or ValueError is raised
ReadCnpjs ==
    /\ script = "app"
    /\ pc = "read"
    /\ fnArgs.has_col
    /\ cnpjs' = read_cnpjs_from_df(read_excel(fnArgs.cells))
    /\ pc' = "loop"
    /\ UNCHANGED <<script, today, idx, rows, resps, log, outFile, startYear,
                   fnVars, sheetVars, uiVars>>

ReadRaises ==
    /\ script = "app"
    /\ pc = "read"
    /\ ~fnArgs.has_col
    /\ pc' = "crashed"
    /\ UNCHANGED <<script, cnpjs, today, idx, rows, resps, log, outFile, startYear,
                   fnVars, sheetVars, uiVars>>

NextRead == ReadCnpjs \/ ReadRaises \/ AppIter \/ AppReturn

SpecRead == InitRead /\ [][NextRead]_vars

\* the cleaned CNPJs of the non-empty cells of the sheet, in sheet order
CleanedCells ==
    LET col == SelectSeq(read_excel(fnArgs.cells), LAMBDA c : c.t # "nan")
    IN  [i \in 1..Len(col) |-> CleanCell(col[i])]

\* the position of the first cell whose cleaned CNPJ is c
FirstAt(c) ==
    CHOOSE i \in 1..Len(CleanedCells) :
        /\ CleanedCells[i] = c
        /\ \A j \in 1..(i - 1) : CleanedCells[j] # c

\* the CNPJs the requests were made for, in the order they were made
Requested ==
    LET reqs == SelectSeq(log, LAMBDA e : e.ev = "req")
    IN  [k \in 1..Len(reqs) |-> cnpjs[reqs[k].i]]

\* C19: in process_dataframe each distinct cleaned CNPJ of the column
\* 'cnpj_part' is queried exactly once, in order of first appearance, however
\* often and with whatever punctuation the sheet writes it; empty cells are
\* skipped; a sheet without the column raises before any query is made.
InvC19 ==
    fn = "process_dataframe" =>
        /\ pc = "read" => Requested = <<>>
        /\ ~fnArgs.has_col => (pc \in {"read", "crashed"} /\ resps = <<>> /\ log = <<>>)
        /\ (fnArgs.has_col /\ pc # "read") =>
              /\ { cnpjs[i] : i \in 1..Len(cnpjs) }
                    = { CleanedCells[i] : i \in 1..Len(CleanedCells) }
              /\ \A i, j \in 1..Len(cnpjs) :
                    i < j => FirstAt(cnpjs[i]) < FirstAt(cnpjs[j])
              /\ Len(Requested) <= Len(cnpjs)
              /\ Requested = SubSeq(cnpjs, 1, Len(Requested))
              /\ pc = "done" => Requested = cnpjs

\* a sheet that writes one CNPJ with punctuation and as a number, around an
\* empty cell, was processed to the end with a single query
WitC19 ==
    /\ fn = "process_dataframe"
    /\ pc = "done"
    /\ Len(fnArgs.cells) = 3
    /\ fnArgs.cells[1].t = "str"
    /\ fnArgs.cells[2].t = "empty"
    /\ fnArgs.cells[3].t = "int"
    /\ Requested = << "11222333000181" >>

(***************************************************************************)
(* extract_periods_from_response of consulta_simples.py on a 'data' block  *)
(* that holds two lists: one under fnArgs.key, which may be a candidate    *)
(* key, and one under 'historico', which is none.                          *)
(***************************************************************************)
ScanKeys == { "simples_nacional_periodos_anteriores", "periodos" }

OtherLists == {
    <<>>,
    << [dict |-> TRUE, sk |-> "data", sv |-> "01/01/2018", ek |-> "fim_data", ev |-> ""] >>,
    << [dict |-> TRUE, sk |-> "inicio_data", sv |-> "01/07/2007", ek |-> "fim_data", ev |-> "31/12/2021"] >> }

ScanJson(items, key, other) ==
    JDict("", << JNum("code", 200),
                 JList("data", << JDict("", <<
                     JList(key, [i \in 1..Len(items) |-> ItemJson(items[i])]),
                     JList("historico", [i \in 1..Len(other) |-> ItemJson(other[i])]) >>) >>) >>)

InitScan ==
    /\ \E items \in SeqsUpTo(ItemSamples, MaxItems), key \in ScanKeys, other \in OtherLists :
          fnArgs = [ items |-> items, key |-> key, other |-> other,
                     json |-> ScanJson(items, key, other) ]
    /\ fn = "" /\ fnOut = <<>> /\ fnPrev = <<>> /\ clock = NoDate
    /\ BatchIdle /\ SheetIdle /\ UiIdle

ScanSimples == Extract("extract_periods_from_response", extract_periods_cs(fnArgs.json))

NextScan == ScanSimples

SpecScan == InitScan /\ [][NextScan]_vars

\* the periods of the candidate-key pass of consulta_simples.py (lines 117-131)
CandidatePass(resp_json) ==
    LET data == CsData(resp_json)
        k    == IF Truthy(data) /\ IsDict(data) THEN CsFirstListKey(data, 1) ELSE 0
    IN  IF k # 0 THEN CsItems(Get(data, candidate_keys[k]), CsStartKeys, 1) ELSE <<>>

\* C20: in extract_periods_from_response of consulta_simples.py, whenever the
\* candidate-key pass found no period - also when a candidate key holds a
\* list none of whose items has a parseable start - the whole JSON is scanned
\* recursively, so the periods returned are those of the recursive scan.
InvC20 ==
    (fn = "extract_periods_from_response" /\ CandidatePass(fnArgs.json) = <<>>) =>
        fnOut = CsLists(find_lists(fnArgs.json), 1)

(***************************************************************************)
(* The extractors of app.py and codigocomentado.py on a 'data' block that  *)
(* holds lists under two candidate keys, in either order in the JSON.      *)
(***************************************************************************)
KeyOrders == {
    << "simples_nacional_periodos_anteriores", "periodos" >>,
    << "periodos", "simples_nacional_periodos_anteriores" >>,
    << "periodo", "simples_periodos" >> }

KeysJson(keys, lists) ==
    JDict("", << JNum("code", 200),
                 JList("data", << JDict("", [n \in 1..2 |->
                     JList(keys[n], [i \in 1..Len(lists[n]) |-> ItemJson(lists[n][i])])]) >>) >>)

InitKeys ==
    /\ \E items \in SeqsUpTo(ItemSamples, MaxItems), other \in OtherLists, keys \in KeyOrders :
          fnArgs = [ keys |-> keys, lists |-> << items, other >>,
                     json |-> KeysJson(keys, << items, other >>) ]
    /\ fn = "" /\ fnOut = <<>> /\ fnPrev = <<>> /\ clock = NoDate
    /\ BatchIdle /\ SheetIdle /\ UiIdle

KeysApp    == Extract("extract_periods_from_response",
                      extract_periods_from_response(fnArgs.json))
KeysCodigo == Extract("extrair_periodos_da_resposta",
                      extrair_periodos_da_resposta(fnArgs.json))

NextKeys == KeysApp \/ KeysCodigo

SpecKeys == InitKeys /\ [][NextKeys]_vars

\* the place of key k in candidate_list_keys
ListedAt(k) == CHOOSE i \in 1..Len(candidate_list_keys) : candidate_list_keys[i] = k

\* the periods the function called last reads in the n-th list of the block
PeriodsUnder(n) ==
    LET lst == Get(DataRoot(fnArgs.json), fnArgs.keys[n]) IN
    IF fn = "extract_periods_from_response" THEN AppItems(lst, 1) ELSE CodigoItems(lst, 1)

\* C21: in extract_periods_from_response (app.py) and
\* extrair_periodos_da_resposta (codigocomentado.py) the candidate keys are
\* tried in their listed order, and the result is exactly the periods of the
\* first key that yields a period: those of a later key are never merged in.
InvC21 ==
    fn \in {"extract_periods_from_response", "extrair_periodos_da_resposta"} =>
        LET n1 == IF ListedAt(fnArgs.keys[1]) < ListedAt(fnArgs.keys[2]) THEN 1 ELSE 2
            n2 == 3 - n1
        IN  /\ PeriodsUnder(n1) # <<>> => fnOut = PeriodsUnder(n1)
            /\ (PeriodsUnder(n1) = <<>> /\ PeriodsUnder(n2) # <<>>) =>
                  fnOut = PeriodsUnder(n2)

\* app.py was given periods under 'periodos', written first in the JSON, and
\* under 'simples_nacional_periodos_anteriores', listed first, and returned
\* those of the second list only
WitC21 ==
    /\ fn = "extract_periods_from_response"
    /\ fnArgs.keys[1] = "periodos"
    /\ PeriodsUnder(1) # <<>>
    /\ PeriodsUnder(2) # <<>>
    /\ PeriodsUnder(1) # PeriodsUnder(2)
    /\ fnOut = PeriodsUnder(2)

\* C22: add_sheet_into_excel_bytes preserves every sheet of the uploaded
\* workbook other than the one named sheet_name: each of them, one named
\* '_tmp_visible_' included, is still in the workbook returned.
InvC22 ==
    wbStep = "returned" =>
        \A i \in 1..Len(wbOrig) :
            wbOrig[i].title # sheet_name =>
                \E j \in 1..Len(wb) : wb[j] = wbOrig[i]

\* the query ended in an error: an exception or timeout (no status), an HTTP
\* error status, or a body that is not JSON (an error page)
IsErrorOutcome(r) == r.status = NoStatus \/ r.status # 200 \/ r.body # "json"

\* C23: every batch loop visits each input CNPJ exactly once and then writes
\* the output file: no error outcome of a query (exception, timeout, HTTP
\* error, error page) stops the loop early or makes it revisit a CNPJ, and
\* the file is written once, after the last CNPJ.
InvC23 ==
    script \in {"consulta", "codigocomentado", "consulta_simples", "brasilapi"} =>
        /\ Len(resps) <= Len(cnpjs)
        /\ \A k \in 1..Len(log) :
              log[k].ev = "req" =>
                  Cardinality({ m \in 1..Len(log) :
                                  log[m].ev = "req" /\ log[m].i = log[k].i }) = 1
        /\ \A i \in 1..Len(resps) :
              IsErrorOutcome(resps[i]) => (pc # "crashed" \/ i < Len(resps))
        /\ outFile.written <=> pc = "done"
        /\ pc = "done" => Len(resps) = Len(cnpjs)

\* C24: in the sheet written by one run of consulta_simples.py the 'CNPJ+ANO'
\* key of every row is built from the row's CNPJ and Ano in one single format,
\* the same for error rows and for classified rows.
InvC24 ==
    (script = "consulta_simples" /\ pc = "done") =>
        \/ \A r \in 1..Len(outFile.data) :
              OutCell(r, "CNPJ+ANO") = OutCell(r, "CNPJ") \o "/" \o ToStr(OutCell(r, "Ano"))
        \/ \A r \in 1..Len(outFile.data) :
              OutCell(r, "CNPJ+ANO") = OutCell(r, "CNPJ") \o ToStr(OutCell(r, "Ano"))

====
